---------------------------- MODULE Spec2Model ----------------------------
(***************************************************************************)
(* hollywoo: the relational schema (database.py, qinit), the Record Store  *)
(* (database.py, class Database), the Reconciliation Scanner (scanner.py)  *)
(* and the scan/GUI message bridge (gui.py).                               *)
(*                                                                         *)
(* Time is counted in ticks of 1/TicksPerSec second: datetime values are   *)
(* ticks, stored INTEGER timestamps are whole seconds (int(x.timestamp())) *)
(* and datetime.fromtimestamp(sec) turns seconds back into ticks.          *)
(***************************************************************************)
EXTENDS Integers, Sequences, FiniteSets, TLC

(***************************************************************************)
(* Bounds of the model.                                                    *)
(***************************************************************************)
MaxClock == 2
MaxOps == 6
MaxCalls == 4
MaxVideos == 2

TicksPerSec == 2

(***************************************************************************)
(* SQL NULL / Python None in an integer column or field, and the id of an  *)
(* entity that has not been stored (model.py: fid/vid/tid = -1).           *)
(***************************************************************************)
NULL == -1
NoId == -1
NoText == "<None>"

Roles == {"Actor", "Director"}

Max(S) == CHOOSE x \in S : \A y \in S : y <= x

\* int(dt.timestamp()): a datetime (ticks) to the stored whole seconds
ToStamp(t) == t \div TicksPerSec
\* datetime.fromtimestamp(sec): stored seconds back to a datetime (ticks)
FromStamp(s) == s * TicksPerSec

(***************************************************************************)
(* The store: one set of rows per table of qinit.                          *)
(***************************************************************************)
EmptyStore ==
    [folder |-> {}, video |-> {}, program |-> {}, prog_vid_link |-> {},
     tag |-> {}, tag_vid_link |-> {}, person |-> {}, person_vid_link |-> {}]

\* INTEGER PRIMARY KEY without AUTOINCREMENT: the largest rowid in use plus one
NewRowId(rows) == IF rows = {} THEN 1 ELSE Max({r.id : r \in rows}) + 1

\* what a failed statement returns: the store as it was, and the error
Fail(st, err) == [ok |-> FALSE, err |-> err, st |-> st, id |-> NoId]
Done(st, id) == [ok |-> TRUE, err |-> "none", st |-> st, id |-> id]


(***************************************************************************)
(* The constraints the schema states (qinit).                              *)
(***************************************************************************)
\* (mutant) the folder table without UNIQUE on path
FolderPathUnique_Absent(st, path) == TRUE

\* folder.path TEXT UNIQUE NOT NULL
FolderPathUnique(st, path) == \A r \in st.folder : r.path # path

\* video: UNIQUE (folder_id, path)
VideoUnique(st, fid, path) ==
    \A r \in st.video : ~(r.folder_id = fid /\ r.path = path)

\* video: CHECK ((xres IS NULL) = (yres IS NULL))
VideoCheckRes(x, y) == (x = NULL) = (y = NULL)

VideoCheckDur_Any(d) == TRUE

\* video: CHECK (duration IS NULL OR duration > 0)
VideoCheckDur(d) == d = NULL \/ d > 0

\* video: FOREIGN KEY (folder_id) REFERENCES folder (id)
VideoFolderFK(st, fid) == \E r \in st.folder : r.id = fid

\* tag.name TEXT UNIQUE NOT NULL
TagNameUnique(st, name) == \A r \in st.tag : r.name # name

\* (mutant) tag_vid_link without its UNIQUE constraint
TagLinkUnique_Absent(st, tid, vid) == TRUE

\* tag_vid_link: UNIQUE (tag_id, vid_id)
TagLinkUnique(st, tid, vid) ==
    \A r \in st.tag_vid_link : ~(r.tag_id = tid /\ r.vid_id = vid)

\* tag_vid_link: FOREIGN KEY (tag_id) -> tag (id), (vid_id) -> video (id)
TagLinkFK(st, tid, vid) ==
    /\ \E r \in st.tag : r.id = tid
    /\ \E r \in st.video : r.id = vid

\* person.name TEXT UNIQUE NOT NULL
PersonNameUnique(st, name) == \A r \in st.person : r.name # name

\* (mutant) person_vid_link with UNIQUE (pid, vid): the role left out
PersonLinkUnique_NoRole(st, pid, vid, role) ==
    \A r \in st.person_vid_link : ~(r.pid = pid /\ r.vid = vid)

\* person_vid_link: UNIQUE (pid, vid, role)
PersonLinkUnique(st, pid, vid, role) ==
    \A r \in st.person_vid_link :
        ~(r.pid = pid /\ r.vid = vid /\ r.role = role)

\* person_vid_link: FOREIGN KEY (pid) -> person (id), (vid) -> video (id)
PersonLinkFK(st, pid, vid) ==
    /\ \E r \in st.person : r.id = pid
    /\ \E r \in st.video : r.id = vid

(***************************************************************************)
(* ON DELETE CASCADE: the rows that go with a set of deleted videos, and   *)
(* with a deleted folder.                                                  *)
(***************************************************************************)
\* (mutant) person_vid_link.vid without ON DELETE CASCADE
CascadeVideos_NoPerson(st, gone) ==
    [st EXCEPT !.video = {r \in @ : r.id \notin gone},
               !.tag_vid_link = {r \in @ : r.vid_id \notin gone},
               !.prog_vid_link = {r \in @ : r.vid_id \notin gone}]

CascadeVideos(st, gone) ==
    [st EXCEPT !.video = {r \in @ : r.id \notin gone},
               !.tag_vid_link = {r \in @ : r.vid_id \notin gone},
               !.person_vid_link = {r \in @ : r.vid \notin gone},
               !.prog_vid_link = {r \in @ : r.vid_id \notin gone}]

\* DELETE FROM folder WHERE id = fid, under the schema's foreign keys
DeleteFolder(st, fid) ==
    LET gone == {r.id : r \in {v \in st.video : v.folder_id = fid}}
    IN  CascadeVideos([st EXCEPT !.folder = {r \in @ : r.id # fid}], gone)

(***************************************************************************)
(* The statements of the Record Store.  Each takes the store the           *)
(* connection sees and returns [ok, err, st, id]: a statement that         *)
(* violates a constraint changes nothing.                                  *)
(***************************************************************************)
\* Database.folder_add: f is the Folder entity [fid, path, last_scan, remote]
folder_add(st, f) ==
    IF ~FolderPathUnique(st, f.path)
    THEN Fail(st, "integrity")
    ELSE LET id == NewRowId(st.folder)
             row == [id |-> id, path |-> f.path,
                     last_scan |-> IF f.last_scan = NULL THEN NULL
                                   ELSE ToStamp(f.last_scan),
                     remote |-> f.remote]
         IN  Done([st EXCEPT !.folder = @ \cup {row}], id)

folder_update_scan_All(st, fid, s) ==
    Done([st EXCEPT !.folder = {[r EXCEPT !.last_scan = ToStamp(s)] : r \in @}],
         fid)

\* Database.folder_update_scan: UPDATE folder SET last_scan = ? WHERE id = ?
folder_update_scan(st, fid, s) ==
    Done([st EXCEPT !.folder =
            {IF r.id = fid THEN [r EXCEPT !.last_scan = ToStamp(s)] ELSE r
             : r \in @}], fid)

\* Database.folder_set_remote: UPDATE folder SET remote = ? WHERE id = ?
\* (remote INTEGER NOT NULL)
folder_set_remote(st, fid, remote) ==
    IF remote = NULL /\ \E r \in st.folder : r.id = fid
    THEN Fail(st, "integrity")
    ELSE Done([st EXCEPT !.folder =
                 {IF r.id = fid THEN [r EXCEPT !.remote = remote] ELSE r
                  : r \in @}], fid)

\* Database.video_add: v is the Video entity, now is datetime.now()
video_add(st, v, now) ==
    IF \/ ~VideoFolderFK(st, v.folder_id)
       \/ ~VideoUnique(st, v.folder_id, v.path)
       \/ ~VideoCheckRes(v.xres, v.yres)
       \/ ~VideoCheckDur(v.duration)
    THEN Fail(st, "integrity")
    ELSE LET id == NewRowId(st.video)
             row == [id |-> id, folder_id |-> v.folder_id, path |-> v.path,
                     added |-> ToStamp(now), mtime |-> ToStamp(v.mtime),
                     title |-> "", cksum |-> NoText,
                     xres |-> v.xres, yres |-> v.yres,
                     duration |-> v.duration, hidden |-> 0]
         IN  Done([st EXCEPT !.video = @ \cup {row}], id)

video_set_title_Lost(st, vid, title) == Done(st, vid)

\* Database.video_set_title: UPDATE video SET title = ? WHERE id = ?
\* (title TEXT NOT NULL)
video_set_title(st, vid, title) ==
    IF title = NoText /\ \E r \in st.video : r.id = vid
    THEN Fail(st, "integrity")
    ELSE Done([st EXCEPT !.video =
                 {IF r.id = vid THEN [r EXCEPT !.title = title] ELSE r
                  : r \in @}], vid)

\* Database.video_set_cksum: UPDATE video SET cksum = ? WHERE id = ?
video_set_cksum(st, vid, ck) ==
    Done([st EXCEPT !.video =
            {IF r.id = vid THEN [r EXCEPT !.cksum = ck] ELSE r : r \in @}],
         vid)

\* Database.video_set_hidden: UPDATE video SET hidden = ? WHERE id = ?
\* (hidden INTEGER NOT NULL)
video_set_hidden(st, vid, hidden) ==
    IF hidden = NULL /\ \E r \in st.video : r.id = vid
    THEN Fail(st, "integrity")
    ELSE Done([st EXCEPT !.video =
                 {IF r.id = vid THEN [r EXCEPT !.hidden = hidden] ELSE r
                  : r \in @}], vid)

\* Database.video_set_mtime: UPDATE video SET mtime = ? WHERE id = ?
video_set_mtime(st, vid, mtime) ==
    Done([st EXCEPT !.video =
            {IF r.id = vid THEN [r EXCEPT !.mtime = ToStamp(mtime)] ELSE r
             : r \in @}], vid)

\* Database.tag_add
tag_add(st, name) ==
    IF ~TagNameUnique(st, name)
    THEN Fail(st, "integrity")
    ELSE LET id == NewRowId(st.tag)
         IN  Done([st EXCEPT !.tag = @ \cup {[id |-> id, name |-> name]}], id)

\* qdb[qid.ProgramAdd]: INSERT INTO program (title) VALUES (?)
program_add(st, title) ==
    LET id == NewRowId(st.program)
    IN  Done([st EXCEPT !.program = @ \cup {[id |-> id, title |-> title]}],
             id)

\* qdb[qid.ProgramAddVideo]: INSERT INTO prog_vid_link (prog_id, vid_id);
\* UNIQUE (vid_id, prog_id), both columns foreign keys
program_add_video(st, pid, vid) ==
    IF \/ ~\E r \in st.program : r.id = pid
       \/ ~\E r \in st.video : r.id = vid
       \/ \E r \in st.prog_vid_link : r.prog_id = pid /\ r.vid_id = vid
    THEN Fail(st, "integrity")
    ELSE LET id == NewRowId(st.prog_vid_link)
         IN  Done([st EXCEPT !.prog_vid_link =
                     @ \cup {[id |-> id, vid_id |-> vid, prog_id |-> pid]}],
                  id)

\* Database.tag_link_create
tag_link_create(st, tid, vid) ==
    IF ~TagLinkFK(st, tid, vid) \/ ~TagLinkUnique(st, tid, vid)
    THEN Fail(st, "integrity")
    ELSE LET id == NewRowId(st.tag_vid_link)
         IN  Done([st EXCEPT !.tag_vid_link =
                     @ \cup {[id |-> id, tag_id |-> tid, vid_id |-> vid]}],
                  id)

\* (mutant) a DELETE whose WHERE clause matches no row
tag_link_remove_Nothing(st, tid, vid) == Done(st, 0)

\* Database.tag_link_remove: the id returned is cur.rowcount
tag_link_remove(st, tid, vid) ==
    LET hit == {r \in st.tag_vid_link : r.tag_id = tid /\ r.vid_id = vid}
    IN  Done([st EXCEPT !.tag_vid_link = @ \ hit], Cardinality(hit))

tag_link_remove_Silent(res) == <<>>

\* Database.tag_link_remove, `if cur.rowcount == 0: self.log.error(...)`:
\* the levels of the records the call logs
tag_link_remove_log(res) == IF res.id = 0 THEN <<"ERROR">> ELSE <<>>

\* qdb[qid.PersonAdd]: INSERT INTO person (name) VALUES (?)
person_add(st, name) ==
    IF ~PersonNameUnique(st, name)
    THEN Fail(st, "integrity")
    ELSE LET id == NewRowId(st.person)
         IN  Done([st EXCEPT !.person =
                     @ \cup {[id |-> id, name |-> name, born |-> NULL]}], id)

\* qdb[qid.LinkPersonAdd]: INSERT INTO person_vid_link (pid, vid, role)
person_link_add(st, pid, vid, role) ==
    IF ~PersonLinkFK(st, pid, vid) \/ ~PersonLinkUnique(st, pid, vid, role)
    THEN Fail(st, "integrity")
    ELSE LET id == NewRowId(st.person_vid_link)
         IN  Done([st EXCEPT !.person_vid_link =
                     @ \cup {[id |-> id, pid |-> pid, vid |-> vid,
                              role |-> role]}], id)

(***************************************************************************)
(* Lookups.  None is the empty set here: a lookup returns the set of the   *)
(* matching rows, and fetchone() takes one of them.                        *)
(***************************************************************************)
\* Database.folder_get_by_path
folder_get_by_path_None(st, path) == {}

folder_get_by_path(st, path) == {r \in st.folder : r.path = path}

\* Database.video_get_by_path: WHERE path = ? (the folder is not compared)
video_get_by_path(st, path) == {r \in st.video : r.path = path}

(***************************************************************************)
(* Lookups as the caller sees them: [ok, ret], where ret is empty for None *)
(* and else holds the entity built from the row fetchone() yields (one of  *)
(* several entities when several rows match).                              *)
(***************************************************************************)
NotFound_Raises == [ok |-> FALSE, ret |-> {}]

\* `if row is None: return None`
NotFound == [ok |-> TRUE, ret |-> {}]
Found(ents) == [ok |-> TRUE, ret |-> ents]

FolderOf_NoPath(r) ==
    [fid |-> r.id, path |-> "",
     last_scan |-> IF r.last_scan = NULL THEN NULL
                   ELSE FromStamp(r.last_scan),
     remote |-> r.remote]

\* Folder(fid=..., path=..., last_scan=..., remote=...) of a folder row
FolderOf(r) ==
    [fid |-> r.id, path |-> r.path,
     last_scan |-> IF r.last_scan = NULL THEN NULL
                   ELSE FromStamp(r.last_scan),
     remote |-> r.remote]

\* Video(vid=..., ...) of a video row
VideoOf(r) ==
    [vid |-> r.id, folder_id |-> r.folder_id, path |-> r.path,
     added |-> FromStamp(r.added), mtime |-> FromStamp(r.mtime),
     title |-> r.title, cksum |-> r.cksum, xres |-> r.xres, yres |-> r.yres,
     duration |-> r.duration, hidden |-> r.hidden]

Lookup(rows, ents) == IF rows = {} THEN NotFound ELSE Found(ents)

\* Database.folder_get_all
folder_get_all(st) == Found({FolderOf(r) : r \in st.folder})

\* Database.folder_get_by_id
folder_get_by_id(st, fid) ==
    LET rows == {r \in st.folder : r.id = fid}
    IN  Lookup(rows, {FolderOf(r) : r \in rows})

\* Database.folder_get_by_path, as the Folder entity
folder_by_path(st, path) ==
    Lookup(folder_get_by_path(st, path),
           {FolderOf(r) : r \in folder_get_by_path(st, path)})

\* Database.video_get_by_id
video_get_by_id(st, vid) ==
    LET rows == {r \in st.video : r.id = vid}
    IN  Lookup(rows, {VideoOf(r) : r \in rows})

\* Database.video_get_by_path, as the Video entity
video_by_path(st, path) ==
    Lookup(video_get_by_path(st, path),
           {VideoOf(r) : r \in video_get_by_path(st, path)})

(***************************************************************************)
(* The list queries.  ORDER BY compares TEXT with the BINARY collation     *)
(* (memcmp); Collate lists the strings of the model in that order.  Rows   *)
(* with equal sort keys, and the rows of a query without ORDER BY, come in *)
(* rowid order, as SQLite's scan of the table yields them.                 *)
(***************************************************************************)
Collate == <<"/a", "/a/b", "/a/b/y.mkv", "/a/s.avi", "/a/x.mp4", "/d",
             "/d/l.mp4", "/e",
             "/e/n.txt", "Action", "Doku">>
Rank(str) == CHOOSE i \in DOMAIN Collate : Collate[i] = str

\* a < b for two tuples of integers of one length
LexLess(a, b) ==
    \E i \in DOMAIN a :
        /\ a[i] < b[i]
        /\ \A j \in DOMAIN a : j < i => a[j] = b[j]

\* the elements of S in the order of their keys (key[x] for x in S, all
\* different)
RECURSIVE SortBy(_, _)
SortBy(S, key) ==
    IF S = {} THEN <<>>
    ELSE LET x == CHOOSE y \in S :
                     \A z \in S \ {y} : LexLess(key[y], key[z])
         IN  <<x>> \o SortBy(S \ {x}, key)

\* rows of a table scan: no ORDER BY
ByRowId(rows) == SortBy(rows, [r \in rows |-> <<r.id>>])
\* ORDER BY path
ByPath(rows) == SortBy(rows, [r \in rows |-> <<Rank(r.path), r.id>>])
\* ORDER BY name
ByName(rows) == SortBy(rows, [r \in rows |-> <<Rank(r.name), r.id>>])

\* [f(s[1]), ..., f(s[n])], for a function f
Each(s, f) == [i \in DOMAIN s |-> f[s[i]]]

\* what a list query returns: the list, or the error it raises
Listed(seq) == [ok |-> TRUE, err |-> "none", list |-> seq]
Raised(err) == [ok |-> FALSE, err |-> err, list |-> <<>>]

\* Database.folder_get_all, as the list it returns
folder_list(st) ==
    Listed(Each(ByRowId(st.folder), [r \in st.folder |-> FolderOf(r)]))

\* Database.video_get_all: hidden is read from row[0], the id
video_get_all(st) ==
    Listed(Each(ByPath(st.video),
                [r \in st.video |-> [VideoOf(r) EXCEPT !.hidden = r.id]]))

\* Database.video_get_by_folder(f) for an id f: `assert fldr is not None`
video_list_by_folder(st, fid) ==
    IF folder_get_by_id(st, fid).ret = {}
    THEN Raised("AssertionError")
    ELSE LET rows == {r \in st.video : r.folder_id = fid}
         IN  Listed(Each(ByPath(rows), [r \in rows |-> VideoOf(r)]))

\* Database.video_get_by_folder(f) for a str f: the folder is looked up with
\* folder_get_by_path, and `assert fldr is not None` follows
video_list_by_path(st, path) ==
    IF folder_by_path(st, path).ret = {}
    THEN Raised("AssertionError")
    ELSE LET fldr == CHOOSE e \in folder_by_path(st, path).ret : TRUE
         IN  video_list_by_folder(st, fldr.fid)

\* Tag(tid=row[0], name=row[1])
TagOf(r) == [tid |-> r.id, name |-> r.name]

\* Database.tag_get_all
tag_get_all(st) ==
    Listed(Each(ByName(st.tag), [r \in st.tag |-> TagOf(r)]))

\* qdb[qid.TagLinkGetByTag]: tag_vid_link JOIN video JOIN folder
\* WHERE t.tag_id = ? ORDER BY f.path, v.path
tag_link_get_by_tag_FolderOnly(st, tid) ==
    LET joined == {j \in [l : st.tag_vid_link, v : st.video, f : st.folder] :
                      /\ j.l.vid_id = j.v.id
                      /\ j.v.folder_id = j.f.id
                      /\ j.l.tag_id = tid}
    IN  Listed(Each(SortBy(joined,
                           [j \in joined |-> <<Rank(j.f.path), j.l.id>>]),
                    [j \in joined |-> VideoOf(j.v)]))

tag_link_get_by_tag(st, tid) ==
    LET joined == {j \in [l : st.tag_vid_link, v : st.video, f : st.folder] :
                      /\ j.l.vid_id = j.v.id
                      /\ j.v.folder_id = j.f.id
                      /\ j.l.tag_id = tid}
    IN  Listed(Each(SortBy(joined,
                           [j \in joined |->
                               <<Rank(j.f.path), Rank(j.v.path), j.l.id>>]),
                    [j \in joined |-> VideoOf(j.v)]))

\* the columns of the tables, as qinit creates them
Columns ==
    [tag |-> {"id", "name"},
     tag_vid_link |-> {"id", "tag_id", "vid_id"}]

\* qdb[qid.TagLinkGetByVid]: SELECT t.id, t.name FROM tag t
\* WHERE t.vid_id = ?  -- the statement names these columns of tag
TagLinkGetByVid_Columns == {"id", "name", "vid_id"}

\* Database.tag_link_get_by_vid: cur.execute prepares the statement, which
\* fails with "no such column" unless tag has every column it names
tag_link_get_by_vid(st, vid) ==
    IF ~(TagLinkGetByVid_Columns \subseteq Columns.tag)
    THEN Raised("OperationalError")
    ELSE Listed(Each(ByRowId(st.tag), [r \in st.tag |-> TagOf(r)]))

\* qdb[qid.TagGetAllVideo]: tag LEFT OUTER JOIN tag_vid_link
\* ON t.id = l.tag_id AND l.vid_id = ? ORDER BY t.name; a row is
\* (Tag, l.id), with NULL for l.id where no link row matches
tag_get_all_vid_AnyVideo(st, vid) ==
    LET links(t) == {l \in st.tag_vid_link : l.tag_id = t.id}
        joined == {j \in [t : st.tag,
                          l : {r.id : r \in st.tag_vid_link} \cup {NULL}] :
                      IF links(j.t) = {} THEN j.l = NULL
                      ELSE j.l \in {l.id : l \in links(j.t)}}
    IN  Listed(Each(SortBy(joined,
                           [j \in joined |-> <<Rank(j.t.name), j.t.id, j.l>>]),
                    [j \in joined |-> <<TagOf(j.t), j.l>>]))

tag_get_all_vid(st, vid) ==
    LET links(t) == {l \in st.tag_vid_link :
                        l.tag_id = t.id /\ l.vid_id = vid}
        joined == {j \in [t : st.tag,
                          l : {r.id : r \in st.tag_vid_link} \cup {NULL}] :
                      IF links(j.t) = {} THEN j.l = NULL
                      ELSE j.l \in {l.id : l \in links(j.t)}}
    IN  Listed(Each(SortBy(joined,
                           [j \in joined |-> <<Rank(j.t.name), j.t.id, j.l>>]),
                    [j \in joined |-> <<TagOf(j.t), j.l>>]))

(***************************************************************************)
(* The entity a write method was passed, after the call: the assignments   *)
(* to its fields follow cur.execute, so an exception skips them.           *)
(***************************************************************************)
Assigned_Always(res, old, new) == new

Assigned(res, old, new) == IF res.ok THEN new ELSE old


(***************************************************************************)
(* State.                                                                  *)
(*   clock    datetime.now() as last read, in ticks                        *)
(*   db       the committed store (the database file)                      *)
(*   conn     per connection: the store it sees inside its open            *)
(*            transaction (st), whether it has read (snap) and whether it  *)
(*            has written and so holds the write lock (writer)             *)
(*   last     the last Record Store call of the client: its name, its      *)
(*            arguments, its outcome, the store it ran on (pre) and the    *)
(*            store it left (post)                                         *)
(*   ops      number of client calls so far                                *)
(*   dbver    number of committed write transactions (the WAL's version)   *)
(*   fsMtime  st_mtime of every file of the file system, in ticks          *)
(*   fsGone   the files that have been removed from the file system        *)
(*   meta     what the Metadata Probe yields for every file                *)
(*   scn      the scanner threads: the Scanner, its connection and where   *)
(*            its scan stands                                              *)
(*   nscans   number of scanner threads started so far                     *)
(*   mq       GUI.mq, the queue of messages to the GUI thread              *)
(*   timers   the callbacks glib.timeout_add has scheduled on the GUI      *)
(*            thread                                                       *)
(*   gui      the GUI: whether _load_data has run, and what the last       *)
(*            load_folder read                                             *)
(*   lastScan how the scan that ended last ended                           *)
(***************************************************************************)
VARIABLES clock, db, conn, last, ops,
          dbver, fsMtime, fsGone, meta, scn, nscans, mq, timers, gui, lastScan,
          opn

storeVars == <<clock, db, conn, last, ops, dbver>>
scanVars ==
    <<fsMtime, fsGone, meta, scn, nscans, mq, timers, gui, lastScan>>
vars == <<clock, db, conn, last, ops,
          dbver, fsMtime, fsGone, meta, scn, nscans, mq, timers, gui, lastScan,
          opn>>

Conns == {"client", "gui"}
\* the scanner threads GUI.handle_add_folder starts
Threads == {1, 2}

\* a connection with no statement run in its open transaction
\* (autocommit = False: BEGIN DEFERRED, no snapshot and no lock yet)
FreshConn == [snap |-> FALSE, writer |-> FALSE, st |-> EmptyStore, ver |-> 0]

\* the store connection c reads: its snapshot once it has one, else the file
View(c) == IF conn[c].snap THEN conn[c].st ELSE db

\* datetime.now(): since the last reading of the clock no tick has passed,
\* or one
Nows == {n \in {clock, clock + 1} : n <= MaxClock}

\* the in-memory entities of a call that passes none, and what a call that
\* is no lookup returns
NoEntity == <<>>
NoIO == [arg |-> NoEntity, ent |-> NoEntity, ret |-> {}, log |-> <<>>,
         list |-> <<>>]

\* the table an add inserts into
AddTable ==
    [folder_add |-> "folder", video_add |-> "video", tag_add |-> "tag",
     tag_link_create |-> "tag_vid_link", person_add |-> "person",
     person_link_add |-> "person_vid_link", program_add |-> "program",
     program_add_video |-> "prog_vid_link"]

NoIds == [t \in DOMAIN EmptyStore |-> 0]

\* top: per table the largest id a successful add of the open transaction
\* or of a committed one has assigned; topDb: the same for the committed
\* transactions only; was: top before the call
NoCall == [op |-> "none", key |-> <<>>, ok |-> TRUE, err |-> "none",
           rc |-> NoId, pre |-> EmptyStore, post |-> EmptyStore,
           undo |-> FALSE, base |-> EmptyStore,
           arg |-> NoEntity, ent |-> NoEntity, ret |-> {}, log |-> <<>>,
           list |-> <<>>,
           top |-> NoIds, topDb |-> NoIds, was |-> NoIds]

\* undo: the call is a tag_link_remove that directly follows a successful
\* tag_link_create of the same pair; base is then the store that
\* tag_link_create ran on
Call(op, key, res, pre) ==
    LET undo == /\ op = "tag_link_remove"
                /\ last.op = "tag_link_create"
                /\ last.ok
                /\ last.key = key
        top == IF res.ok /\ op \in DOMAIN AddTable
               THEN [last.top EXCEPT ![AddTable[op]] = Max({@, res.id})]
               ELSE last.top
    IN  [op |-> op, key |-> key, ok |-> res.ok, err |-> res.err,
         rc |-> res.id, pre |-> pre, post |-> res.st, undo |-> undo,
         base |-> IF undo THEN last.pre ELSE EmptyStore,
         arg |-> NoEntity, ent |-> NoEntity, ret |-> {}, log |-> <<>>,
         list |-> <<>>,
         top |-> top, topDb |-> last.topDb, was |-> last.top]

\* the end of a `with db:` block, as the last event of the connection
Exit(op, pre, post) ==
    LET top == IF op = "rollback" THEN last.topDb ELSE last.top
    IN  [NoCall EXCEPT !.op = op, !.pre = pre, !.post = post,
                       !.top = top, !.topDb = top, !.was = top]

(***************************************************************************)
(* Inputs of the client.                                                   *)
(***************************************************************************)
RootPaths == {"/a", "/a/b"}
\* the remote flag the client gives the Folder of a root: /a/b is a mount
RemoteOf(path) == IF path = "/a/b" THEN 1 ELSE 0
FilePaths == {"/a/x.mp4", "/a/b/y.mkv"}
TagNames == {"Action", "Doku"}
PersonNames == {"Ada"}
ProgramTitles == {"Serial"}
Ids == 1..2
\* Resolution(x, y) and duration of the Video entities the client adds
Shapes == {<<1920, 1080, 5400000>>, <<NULL, 1080, 5400000>>,
           <<1920, 1080, 0>>}
\* and a Video without resolution and duration
AllShapes == Shapes \cup {<<NULL, NULL, NULL>>}

TypeOK ==
    /\ clock \in 0..MaxClock
    /\ ops \in 0..MaxOps
    /\ DOMAIN conn = Conns
    /\ nscans \in 0..Cardinality(Threads)
    /\ DOMAIN scn = Threads

\* a statement of the client's connection: it runs on the connection's view
\* and leaves its result there; a write takes the write lock
RunOn(c, op, key, res, io) ==
    /\ ops < MaxOps
    /\ ops' = ops + 1
    /\ conn' = [conn EXCEPT ![c] = [snap |-> TRUE,
                                    writer |-> @.writer \/ res.st # View(c),
                                    st |-> res.st,
                                    ver |-> IF @.snap THEN @.ver ELSE dbver]]
    /\ last' = [Call(op, key, res, View(c)) EXCEPT !.arg = io.arg,
                                                    !.ent = io.ent,
                                                    !.ret = io.ret,
                                                    !.log = io.log,
                                                    !.list = io.list]
    /\ UNCHANGED <<db, dbver>>
    /\ UNCHANGED <<scanVars, opn>>

\* a statement that passes no entity and returns no rows
Run(c, op, key, res) == RunOn(c, op, key, res, NoIO)

\* what a method that was passed the entity arg leaves: the store of res
\* and the entity new, if its assignments were reached
Wrote(res, arg, new) ==
    [NoIO EXCEPT !.arg = arg, !.ent = Assigned(res, arg, new)]

\* what a lookup leaves: the store as it is, and what it returns
Read(st, got) ==
    [ok |-> got.ok, err |-> IF got.ok THEN "none" ELSE "TypeError",
     st |-> st, id |-> NoId]

\* the Folder / Video object a caller holds for an id; the Video was built
\* (added = datetime.now()) when the session began
FolderArg(fid) ==
    [fid |-> fid, path |-> "", last_scan |-> NULL, remote |-> 0]
VideoArg(vid) ==
    [vid |-> vid, folder_id |-> 1, path |-> "", added |-> 0,
     mtime |-> 0, title |-> NoText, cksum |-> NoText, xres |-> 1920,
     yres |-> 1080, duration |-> 5400000, hidden |-> 0]

FolderAdd ==
    \E path \in RootPaths :
        LET f == [FolderArg(NoId) EXCEPT !.path = path,
                                        !.remote = RemoteOf(path)]
            res == folder_add(View("client"), f)
        IN  /\ RunOn("client", "folder_add", <<path>>, res,
                     Wrote(res, f, [f EXCEPT !.fid = res.id]))
            /\ UNCHANGED clock

FolderDelete ==
    \E fid \in Ids :
        /\ Run("client", "folder_delete", <<fid>>,
               Done(DeleteFolder(View("client"), fid), fid))
        /\ UNCHANGED clock

VideoAddOf(shapes) ==
    \E fid \in Ids, path \in FilePaths, shape \in shapes :
        LET v == [VideoArg(NoId) EXCEPT !.folder_id = fid, !.path = path,
                                       !.xres = shape[1], !.yres = shape[2],
                                       !.duration = shape[3]]
            res == video_add(View("client"), v, clock)
        IN  /\ RunOn("client", "video_add", <<fid, path>>, res,
                     Wrote(res, v, [v EXCEPT !.added = clock,
                                             !.vid = res.id]))
            /\ UNCHANGED clock

VideoAdd == VideoAddOf(Shapes)
VideoAddAny == VideoAddOf(AllShapes)

TagAdd ==
    \E name \in TagNames :
        LET t == [tid |-> NoId, name |-> name]
            res == tag_add(View("client"), name)
        IN  /\ RunOn("client", "tag_add", <<name>>, res,
                     Wrote(res, t, [t EXCEPT !.tid = res.id]))
            /\ UNCHANGED clock

TagLinkCreate ==
    \E tid \in Ids, vid \in Ids :
        LET tv == [tid |-> tid, vid |-> vid]
            res == tag_link_create(View("client"), tid, vid)
        IN  /\ RunOn("client", "tag_link_create", <<tid, vid>>, res,
                     Wrote(res, tv, tv))
            /\ UNCHANGED clock

TagLinkRemove ==
    \E tid \in Ids, vid \in Ids :
        LET res == tag_link_remove(View("client"), tid, vid)
        IN  /\ RunOn("client", "tag_link_remove", <<tid, vid>>, res,
                     [NoIO EXCEPT !.log = tag_link_remove_log(res)])
            /\ UNCHANGED clock

PersonAdd ==
    \E name \in PersonNames :
        /\ Run("client", "person_add", <<name>>,
               person_add(View("client"), name))
        /\ UNCHANGED clock

PersonLinkAdd ==
    \E pid \in Ids, vid \in Ids, role \in Roles :
        /\ Run("client", "person_link_add", <<pid, vid, role>>,
               person_link_add(View("client"), pid, vid, role))
        /\ UNCHANGED clock

ProgramAdd ==
    \E title \in ProgramTitles :
        /\ Run("client", "program_add", <<title>>,
               program_add(View("client"), title))
        /\ UNCHANGED clock

ProgramAddVideo ==
    \E pid \in Ids, vid \in Ids :
        /\ Run("client", "program_add_video", <<pid, vid>>,
               program_add_video(View("client"), pid, vid))
        /\ UNCHANGED clock

\* Database.__exit__ without an exception: sqlite3 commits
Commit ==
    /\ conn["client"].snap
    /\ ops < MaxOps
    /\ db' = View("client")
    /\ dbver' = IF conn["client"].writer THEN dbver + 1 ELSE dbver
    /\ UNCHANGED <<scanVars, opn>>
    /\ conn' = [conn EXCEPT !["client"] = FreshConn]
    /\ ops' = ops + 1
    /\ last' = Exit("commit", View("client"), View("client"))
    /\ UNCHANGED clock

\* Database.__exit__ with an exception: sqlite3 rolls back
Rollback ==
    /\ conn["client"].snap
    /\ ops < MaxOps
    /\ conn' = [conn EXCEPT !["client"] = FreshConn]
    /\ ops' = ops + 1
    /\ last' = Exit("rollback", View("client"), db)
    /\ UNCHANGED <<clock, db, dbver>>
    /\ UNCHANGED <<scanVars, opn>>

(***************************************************************************)
(* The field setters and the lookups of folders and videos.                *)
(***************************************************************************)
FolderUpdateScan ==
    \E fid \in Ids, s \in Nows :
        LET f == FolderArg(fid)
            res == folder_update_scan(View("client"), fid, s)
        IN  /\ RunOn("client", "folder_update_scan", <<fid, s>>, res,
                     Wrote(res, f, [f EXCEPT !.last_scan = s]))
            /\ clock' = s

FolderSetRemote ==
    \E fid \in Ids, remote \in {1, NULL} :
        LET f == FolderArg(fid)
            res == folder_set_remote(View("client"), fid, remote)
        IN  /\ RunOn("client", "folder_set_remote", <<fid, remote>>, res,
                     Wrote(res, f, [f EXCEPT !.remote = remote]))
            /\ UNCHANGED clock

VideoSetTitle ==
    \E vid \in Ids, title \in {"Title", NoText} :
        LET v == VideoArg(vid)
            res == video_set_title(View("client"), vid, title)
        IN  /\ RunOn("client", "video_set_title", <<vid, title>>, res,
                     Wrote(res, v, [v EXCEPT !.title = title]))
            /\ UNCHANGED clock

VideoSetCksum ==
    \E vid \in Ids :
        LET v == VideoArg(vid)
            res == video_set_cksum(View("client"), vid, "c0ffee")
        IN  /\ RunOn("client", "video_set_cksum", <<vid, "c0ffee">>, res,
                     Wrote(res, v, [v EXCEPT !.cksum = "c0ffee"]))
            /\ UNCHANGED clock

VideoSetMtime ==
    \E vid \in Ids :
        LET v == VideoArg(vid)
            res == video_set_mtime(View("client"), vid, clock)
        IN  /\ RunOn("client", "video_set_mtime", <<vid, clock>>, res,
                     Wrote(res, v, [v EXCEPT !.mtime = clock]))
            /\ UNCHANGED clock

VideoSetHidden ==
    \E vid \in Ids, hidden \in {1, NULL} :
        LET v == VideoArg(vid)
            res == video_set_hidden(View("client"), vid, hidden)
        IN  /\ RunOn("client", "video_set_hidden", <<vid, hidden>>, res,
                     Wrote(res, v, [v EXCEPT !.hidden = hidden]))
            /\ UNCHANGED clock

\* what a lookup returns to its caller
Returned(got) == [NoIO EXCEPT !.ret = got.ret]

FolderGetAll ==
    LET got == folder_get_all(View("client"))
    IN  /\ RunOn("client", "folder_get_all", <<>>,
                 Read(View("client"), got),
                 [Returned(got) EXCEPT
                     !.list = folder_list(View("client")).list])
        /\ UNCHANGED clock

FolderGetById ==
    \E fid \in Ids :
        LET got == folder_get_by_id(View("client"), fid)
        IN  /\ RunOn("client", "folder_get_by_id", <<fid>>,
                     Read(View("client"), got), Returned(got))
            /\ UNCHANGED clock

FolderGetByPath ==
    \E path \in RootPaths :
        LET got == folder_by_path(View("client"), path)
        IN  /\ RunOn("client", "folder_get_by_path", <<path>>,
                     Read(View("client"), got), Returned(got))
            /\ UNCHANGED clock

VideoGetById ==
    \E vid \in Ids :
        LET got == video_get_by_id(View("client"), vid)
        IN  /\ RunOn("client", "video_get_by_id", <<vid>>,
                     Read(View("client"), got), Returned(got))
            /\ UNCHANGED clock

VideoGetByPath ==
    \E path \in FilePaths :
        LET got == video_by_path(View("client"), path)
        IN  /\ RunOn("client", "video_get_by_path", <<path>>,
                     Read(View("client"), got), Returned(got))
            /\ UNCHANGED clock

(***************************************************************************)
(* The list queries of the client.                                         *)
(***************************************************************************)
\* what a list query leaves: the store as it is
ReadList(st, got) == [ok |-> got.ok, err |-> got.err, st |-> st, id |-> NoId]
ReturnedList(got) == [NoIO EXCEPT !.list = got.list]

VideoGetAll ==
    LET got == video_get_all(View("client"))
    IN  /\ RunOn("client", "video_get_all", <<>>,
                 ReadList(View("client"), got), ReturnedList(got))
        /\ UNCHANGED clock

\* the key of the call is <<id, path>> of the folder asked for, with NoId or
\* "" for the one that was not passed
VideoGetByFolder ==
    \/ \E fid \in Ids :
          LET got == video_list_by_folder(View("client"), fid)
          IN  /\ RunOn("client", "video_get_by_folder", <<fid, "">>,
                       ReadList(View("client"), got), ReturnedList(got))
              /\ UNCHANGED clock
    \/ \E path \in RootPaths :
          LET got == video_list_by_path(View("client"), path)
          IN  /\ RunOn("client", "video_get_by_folder", <<NoId, path>>,
                       ReadList(View("client"), got), ReturnedList(got))
              /\ UNCHANGED clock

TagGetAll ==
    LET got == tag_get_all(View("client"))
    IN  /\ RunOn("client", "tag_get_all", <<>>,
                 ReadList(View("client"), got), ReturnedList(got))
        /\ UNCHANGED clock

TagLinkGetByTag ==
    \E tid \in Ids :
        LET got == tag_link_get_by_tag(View("client"), tid)
        IN  /\ RunOn("client", "tag_link_get_by_tag", <<tid>>,
                     ReadList(View("client"), got), ReturnedList(got))
            /\ UNCHANGED clock

TagLinkGetByVid ==
    \E vid \in Ids :
        LET got == tag_link_get_by_vid(View("client"), vid)
        IN  /\ RunOn("client", "tag_link_get_by_vid", <<vid>>,
                     ReadList(View("client"), got), ReturnedList(got))
            /\ UNCHANGED clock

TagGetAllVid ==
    \E vid \in Ids :
        LET got == tag_get_all_vid(View("client"), vid)
        IN  /\ RunOn("client", "tag_get_all_vid", <<vid>>,
                     ReadList(View("client"), got), ReturnedList(got))
            /\ UNCHANGED clock

(***************************************************************************)
(* The stores the list queries are run on: what a sequence of folder_add,  *)
(* video_add, tag_add and tag_link_create calls leaves, in any order of    *)
(* the folders, of at most MaxVideos videos and of the tags.               *)
(***************************************************************************)
\* the sequences of at most n different elements of S
Orders(S, n) ==
    {s \in UNION {[1..k -> S] : k \in 0..n} :
        \A i, j \in DOMAIN s : i # j => s[i] # s[j]}

\* one call of a script; a call that is rejected changes nothing
Step(st, c) ==
    CASE c.op = "folder_add" ->
            folder_add(st, [FolderArg(NoId) EXCEPT
                               !.path = c.str, !.remote = RemoteOf(c.str)]).st
      [] c.op = "video_add" ->
            video_add(st, [VideoArg(NoId) EXCEPT
                              !.folder_id = c.id, !.path = c.str], 0).st
      [] c.op = "tag_add" -> tag_add(st, c.str).st
      [] OTHER -> tag_link_create(st, c.id, c.to).st

RECURSIVE Populate(_, _)
Populate(st, script) ==
    IF script = <<>> THEN st
    ELSE Populate(Step(st, Head(script)), Tail(script))

Scripts ==
    {Each(fs, [x \in RootPaths |->
                 [op |-> "folder_add", str |-> x, id |-> NoId, to |-> NoId]])
     \o Each(vs, [x \in Ids \X FilePaths |->
                    [op |-> "video_add", str |-> x[2], id |-> x[1],
                     to |-> NoId]])
     \o Each(ts, [x \in TagNames |->
                    [op |-> "tag_add", str |-> x, id |-> NoId, to |-> NoId]])
     \o Each(SortBy(ls, [x \in ls |-> x]),
             [x \in Ids \X Ids |->
                 [op |-> "tag_link_create", str |-> "", id |-> x[1],
                  to |-> x[2]]]) :
        fs \in Orders(RootPaths, Cardinality(RootPaths)),
        vs \in Orders(Ids \X FilePaths, MaxVideos),
        ts \in Orders(TagNames, Cardinality(TagNames)),
        ls \in SUBSET (Ids \X Ids)}

Stores == {Populate(EmptyStore, script) : script \in Scripts}

(***************************************************************************)
(* The file system the Scanner walks: two nested roots, a root without any *)
(* video and a root that holds a symbolic link to a file that is gone.     *)
(***************************************************************************)
ScanRoots == {"/a", "/a/b", "/d", "/e"}
Files == {"/a/x.mp4", "/a/s.avi", "/a/b/y.mkv", "/d/l.mp4", "/e/n.txt"}

\* what a name in os.walk's list of files is: a regular file, or a
\* symbolic link whose target does not exist
Kind(f) == IF f = "/d/l.mp4" THEN "dangling" ELSE "file"

\* os.walk(root): the full paths of the files under root, top-down
Walk(root) ==
    CASE root = "/a" -> <<"/a/x.mp4", "/a/s.avi", "/a/b/y.mkv">>
      [] root = "/a/b" -> <<"/a/b/y.mkv">>
      [] root = "/d" -> <<"/d/l.mp4">>
      [] OTHER -> <<"/e/n.txt">>

\* the suffix of a file name, lower-cased (suffix_pat is compiled with re.I)
Suffix(f) ==
    CASE f = "/a/x.mp4" -> "mp4"
      [] f = "/a/s.avi" -> "avi"
      [] f = "/a/b/y.mkv" -> "mkv"
      [] f = "/d/l.mp4" -> "mp4"
      [] OTHER -> "txt"

\* st_size
FileSize(f) ==
    CASE f = "/a/x.mp4" -> 1024 * 1024 * 150
      [] f = "/a/s.avi" -> 1024 * 1024 * 100 - 1
      [] f = "/a/b/y.mkv" -> 1024 * 1024 * 100
      [] OTHER -> 1024 * 1024 * 150

min_size == 1024 * 1024 * 100
\* suffix_pat: [.](avi|mp4|m[4k]v|mpe?g|wmv|m2ts)$
suffix_pat == {"avi", "mp4", "m4v", "mkv", "mpg", "mpeg", "wmv", "m2ts"}

\* Scanner.skip_file
skip_file(f) ==
    IF Suffix(f) \notin suffix_pat THEN TRUE
    ELSE IF FileSize(f) < min_size THEN TRUE
    ELSE FALSE

\* the files under root that a scan does not skip
Eligible(root) == {f \in Files : (\E i \in DOMAIN Walk(root) : Walk(root)[i] = f)
                                 /\ Kind(f) = "file"
                                 /\ ~skip_file(f)}
\* every entry under root is a regular file
Regular(root) == \A i \in DOMAIN Walk(root) : Kind(Walk(root)[i]) = "file"

(***************************************************************************)
(* The Metadata Probe (MediaInfo.parse): it raises, or finds no tracks, or *)
(* yields width, height, duration and title, any of which may be None.     *)
(***************************************************************************)
ProbeGood == [raises |-> FALSE, tracks |-> TRUE, w |-> 1920, h |-> 1080,
              dur |-> 5400000, title |-> "Title"]
ProbeNoTracks == [ProbeGood EXCEPT !.tracks = FALSE]
ProbeHalfRes == [ProbeGood EXCEPT !.w = NULL]
ProbeZeroDur == [ProbeGood EXCEPT !.dur = 0]
ProbeRaises == [ProbeGood EXCEPT !.raises = TRUE]
\* `title or movie_name` is empty
ProbeNoTitle == [ProbeGood EXCEPT !.title = ""]
\* the answers the probe may give for a file
Probes(f) ==
    IF f = "/a/x.mp4"
    THEN {ProbeGood, ProbeNoTracks, ProbeHalfRes, ProbeZeroDur, ProbeRaises}
    ELSE IF f = "/a/b/y.mkv"
    THEN {ProbeGood, ProbeNoTracks, ProbeNoTitle, ProbeRaises}
    ELSE {ProbeGood}

get_metadata_Blank(m) ==
    [resolution |-> <<>>, duration |-> NULL, title |-> NoText]

\* Scanner._get_metadata, for a probe that does not raise: the defaultdict
\* info, with None for every key when a track list is empty
get_metadata(m) ==
    IF ~m.tracks
    THEN [resolution |-> <<>>, duration |-> NULL, title |-> NoText]
    ELSE [resolution |-> <<m.w, m.h>>, duration |-> m.dur, title |-> m.title]

(***************************************************************************)
(* Scanner threads.                                                        *)
(***************************************************************************)
NoFolder == [fid |-> NoId, path |-> "", last_scan |-> NULL, remote |-> 0]

\* A thread that has not been started.  Below the program's own fields
\* (pc .. cx) are the records kept of the scan: the committed store when it
\* began (pre) and when it ended (post), whether the folder was created by
\* it (newRoot), whether it directly follows a successful scan of the same
\* root with the tree and the store as that scan left them (rescan), whether
\* it has run alone on an unchanged tree (quiet), the rows it found with an
\* older mtime and the mtime it saw (bumped), the ids it inserted (wrote),
\* its folder_update_scan calls (stamps), the error that ended it (err),
\* the tags of the messages it has put on the GUI's queue (sent) and, as
\* pairs <<file, call>>, what it has done with the entries of the walk
\* (did): "stat", "skip", the store calls "get" (with "found" when a row
\* was returned), "set_mtime", "add" and "set_title", and "probe".
IdleScanner ==
    [pc |-> "idle", path |-> "", root |-> NoFolder, todo |-> <<>>,
     cache |-> {}, cx |-> FreshConn,
     pre |-> EmptyStore, post |-> EmptyStore, newRoot |-> FALSE,
     rescan |-> FALSE, quiet |-> FALSE, bumped |-> {}, wrote |-> {},
     stamps |-> 0, err |-> "none", sent |-> <<>>, did |-> {}]

Active(t) == scn[t].pc \in {"start", "walk", "commit", "send"}
InScan(t) == scn[t].pc \in {"walk", "commit"}

\* the store the scanner's connection reads
ScanView(t) == IF scn[t].cx.snap THEN scn[t].cx.st ELSE db

\* some connection other than thread t's holds the write lock
LockedFor(t) ==
    \/ \E c \in Conns : conn[c].writer
    \/ \E u \in Threads : u # t /\ scn[u].cx.writer

\* whether a statement of thread t's connection may (begin to) write: it
\* holds the lock already, or nobody does and its snapshot is the latest
\* commit (else SQLITE_BUSY / SQLITE_BUSY_SNAPSHOT: database is locked)
CanWrite(t) ==
    \/ scn[t].cx.writer
    \/ /\ ~LockedFor(t)
       /\ (~scn[t].cx.snap \/ scn[t].cx.ver = dbver)

\* the connection after a statement that read st0 and left st1
After(cx, st1, wrote) ==
    [snap |-> TRUE, writer |-> cx.writer \/ wrote, st |-> st1,
     ver |-> IF cx.snap THEN cx.ver ELSE dbver]

\* the folder rows of a view as Folder entities, in rowid order
RECURSIVE FolderList(_)
FolderList(rows) ==
    IF rows = {} THEN <<>>
    ELSE LET r == CHOOSE x \in rows : \A y \in rows : x.id <= y.id
         IN  <<[fid |-> r.id, path |-> r.path,
                last_scan |-> IF r.last_scan = NULL THEN NULL
                              ELSE FromStamp(r.last_scan),
                remote |-> r.remote]>> \o FolderList(rows \ {r})

\* Database.video_get_by_folder(fldr): WHERE folder_id = ?
video_get_by_folder(st, fid) == {r \in st.video : r.folder_id = fid}

\* the end of a scan, kept for the scan that follows it
Ended(t, ok, store) ==
    [ok |-> ok, path |-> scn[t].path, mt |-> fsMtime, db |-> store]

db_exit_AlwaysCommit(cx, ex) == IF cx.writer THEN cx.st ELSE db

db_exit_KeepsFolder(cx, ex) ==
    IF ~cx.writer THEN db
    ELSE IF ex THEN [db EXCEPT !.folder = cx.st.folder]
    ELSE cx.st

\* Database.__exit__: sqlite3 commits the transaction of connection cx when
\* the block ends without an exception and rolls it back when it ends with
\* one; the result is the committed store
db_exit(cx, ex) == IF ~ex /\ cx.writer THEN cx.st ELSE db

\* the other scans stop being alone on an unchanged store and tree
Disturb(t, new) ==
    [u \in Threads |->
        IF u = t THEN new
        ELSE IF InScan(u) THEN [scn[u] EXCEPT !.quiet = FALSE]
        ELSE scn[u]]

\* an exception leaves Scanner.scan: the transaction is rolled back and the
\* thread ends in scan_folder's finally clause
Die(t, why, cache, marks, calls) ==
    /\ scn' = [scn EXCEPT ![t] = [@ EXCEPT !.pc = "dead", !.err = why,
                                           !.cache = cache,
                                           !.bumped = marks,
                                           !.did = calls,
                                           !.cx = FreshConn,
                                           !.post = db_exit(scn[t].cx, TRUE)]]
    /\ lastScan' = Ended(t, FALSE, db_exit(scn[t].cx, TRUE))
    /\ db' = db_exit(scn[t].cx, TRUE)
    /\ UNCHANGED <<clock, dbver, mq>>

(***************************************************************************)
(* GUI.handle_add_folder: the user picks a folder and a thread running     *)
(* scan_folder is started.                                                 *)
(***************************************************************************)
GuiAddFolder ==
    \E path \in ScanRoots :
        /\ gui.loaded
        /\ nscans < Cardinality(Threads)
        /\ nscans' = nscans + 1
        /\ scn' = [scn EXCEPT ![nscans + 1] =
                     [IdleScanner EXCEPT !.pc = "start", !.path = path]]
        /\ UNCHANGED <<fsMtime, fsGone, meta, opn, mq, timers, gui, lastScan>>
        /\ UNCHANGED storeVars

(***************************************************************************)
(* GUI.scan_folder up to the walk: Scanner(path) opens its own connection, *)
(* scan() enters `with self.db`, looks the root up and adds it if there is *)
(* no row.                                                                 *)
(***************************************************************************)
ScanBegin(t) ==
    /\ scn[t].pc = "start"
    /\ LET me == scn[t]
           found == folder_get_by_path(db, me.path)
           alone == \A u \in Threads : u # t => ~InScan(u)
           cx0 == After(FreshConn, db, FALSE)
           prep == [me EXCEPT !.pre = db, !.quiet = alone,
                              !.rescan = /\ alone
                                         /\ lastScan.ok
                                         /\ lastScan.path = me.path
                                         /\ lastScan.mt = fsMtime
                                         /\ lastScan.db = db]
       IN  IF found # {}
           THEN LET r == CHOOSE x \in found : TRUE
                IN  /\ scn' = Disturb(t,
                          [prep EXCEPT !.pc = "walk", !.cx = cx0,
                                       !.todo = Walk(me.path),
                                       !.root = [fid |-> r.id,
                                                 path |-> me.path,
                                                 last_scan |->
                                                    IF r.last_scan = NULL
                                                    THEN NULL
                                                    ELSE FromStamp(r.last_scan),
                                                 remote |-> r.remote]])
                    /\ UNCHANGED <<lastScan, db>>
           ELSE IF LockedFor(t)
           THEN /\ scn' = Disturb(t,
                          [prep EXCEPT !.pc = "dead", !.err = "locked",
                                       !.post = db])
                /\ lastScan' = Ended(t, FALSE, db)
                /\ UNCHANGED db
           ELSE LET res == folder_add(db, [NoFolder EXCEPT !.path = me.path])
                IN  /\ scn' = Disturb(t,
                          [prep EXCEPT !.pc = "walk",
                                       !.cx = After(cx0, res.st, TRUE),
                                       !.todo = Walk(me.path),
                                       !.newRoot = TRUE,
                                       !.root = [NoFolder EXCEPT
                                                    !.fid = res.id,
                                                    !.path = me.path]])
                    /\ UNCHANGED <<lastScan, db>>
    /\ UNCHANGED <<clock, conn, last, ops, dbver>>
    /\ UNCHANGED <<fsMtime, fsGone, meta, opn, nscans, mq, timers, gui>>

(***************************************************************************)
(* One turn of the loop over the files of the walk (scanner.py 85-121).    *)
(***************************************************************************)
ScanFile(t) ==
    /\ scn[t].pc = "walk"
    /\ scn[t].todo # <<>>
    /\ LET me == scn[t]
           f == Head(me.todo)
           st0 == ScanView(t)
           \* Scanner.stat: os.stat unless the path is in the cache
           cached == {c \in me.cache : c[1] = f}
           stat == IF cached # {} THEN CHOOSE c \in cached : TRUE
                   ELSE <<f, FileSize(f), fsMtime[f]>>
           mtime == stat[3]
       IN  IF Suffix(f) \notin suffix_pat
           THEN /\ scn' = [scn EXCEPT ![t].todo = Tail(me.todo),
                                      ![t].did = @ \cup {<<f, "skip">>}]
                /\ UNCHANGED <<clock, db, dbver, mq, lastScan>>
           ELSE IF Kind(f) = "dangling"
           \* os.stat follows the link: FileNotFoundError
           THEN Die(t, "stat", me.cache, me.bumped,
                    me.did \cup {<<f, "stat">>})
           ELSE IF skip_file(f)
           THEN /\ scn' = [scn EXCEPT ![t].todo = Tail(me.todo),
                                      ![t].cache = @ \cup {stat},
                                      ![t].did = @ \cup {<<f, "stat">>,
                                                         <<f, "skip">>}]
                /\ UNCHANGED <<clock, db, dbver, mq, lastScan>>
           ELSE
           \E now \in Nows :
           \E old \in IF video_get_by_path(st0, f) = {} THEN {NoFolder}
                      ELSE video_get_by_path(st0, f) :
             LET seen == video_get_by_path(st0, f) # {}
                 newer == seen /\ mtime > FromStamp(old.mtime)
                 st1 == IF newer THEN video_set_mtime(st0, old.id, mtime).st
                        ELSE st0
                 info == get_metadata(meta[f])
                 res == IF Len(info.resolution) = 0 THEN <<0, 0>>
                        ELSE info.resolution
                 vid == [vid |-> NoId, folder_id |-> me.root.fid, path |-> f,
                         mtime |-> mtime, xres |-> res[1], yres |-> res[2],
                         duration |-> info.duration]
                 add == video_add(st1, vid, now)
                 st2 == IF info.title # NoText /\ info.title # ""
                        THEN video_set_title(add.st, add.id, info.title).st
                        ELSE add.st
                 cache1 == me.cache \cup {stat}
                 marks == IF newer
                          THEN me.bumped \cup {[row |-> old, m |-> mtime]}
                          ELSE me.bumped
                 got == me.did \cup {<<f, "stat">>, <<f, "get">>}
                           \cup (IF seen THEN {<<f, "found">>} ELSE {})
                           \cup (IF newer THEN {<<f, "set_mtime">>} ELSE {})
                 probed == got \cup {<<f, "probe">>}
                 added == probed \cup {<<f, "add">>}
                 titled == IF st2 # add.st THEN added \cup {<<f, "set_title">>}
                           ELSE added
             IN  IF newer /\ ~CanWrite(t)
                 THEN Die(t, "locked", cache1, me.bumped, got)
                 ELSE IF meta[f].raises
                 THEN Die(t, "probe", cache1, marks, probed)
                 ELSE IF ~CanWrite(t)
                 THEN Die(t, "locked", cache1, marks, added)
                 ELSE IF ~add.ok
                 THEN Die(t, "integrity", cache1, marks, added)
                 ELSE /\ scn' = [scn EXCEPT ![t] =
                            [me EXCEPT !.todo = Tail(me.todo),
                                       !.cache = cache1,
                                       !.cx = After(me.cx, st2, TRUE),
                                       !.bumped = marks,
                                       !.did = titled,
                                       !.wrote = @ \cup {add.id}]]
                      /\ clock' = now
                      /\ UNCHANGED <<db, dbver, mq, lastScan>>
    /\ UNCHANGED <<conn, last, ops>>
    /\ UNCHANGED <<fsMtime, fsGone, meta, opn, nscans, timers, gui>>

(***************************************************************************)
(* After the walk: folder_update_scan(root, datetime.now()).               *)
(***************************************************************************)
ScanStamp(t) ==
    /\ scn[t].pc = "walk"
    /\ scn[t].todo = <<>>
    /\ \E now \in Nows :
         LET me == scn[t]
             res == folder_update_scan(ScanView(t), me.root.fid, now)
         IN  IF ~CanWrite(t)
             THEN Die(t, "locked", me.cache, me.bumped, me.did)
             ELSE /\ scn' = [scn EXCEPT ![t] =
                        [me EXCEPT !.pc = "commit",
                                   !.cx = After(me.cx, res.st, TRUE),
                                   !.root = [@ EXCEPT !.last_scan = now],
                                   !.stamps = @ + 1]]
                  /\ clock' = now
                  /\ UNCHANGED <<db, dbver, mq, lastScan>>
    /\ UNCHANGED <<conn, last, ops>>
    /\ UNCHANGED <<fsMtime, fsGone, meta, opn, nscans, timers, gui>>

(***************************************************************************)
(* The `with self.db` block ends without an exception: the transaction is  *)
(* committed, then the stat cache is cleared and scan returns root.        *)
(***************************************************************************)
ScanCommit(t) ==
    /\ scn[t].pc = "commit"
    /\ db' = db_exit(scn[t].cx, FALSE)
    /\ dbver' = IF scn[t].cx.writer THEN dbver + 1 ELSE dbver
    /\ scn' = Disturb(t, [scn[t] EXCEPT !.pc = "send", !.cx = FreshConn,
                                        !.cache = {},
                                        !.post = db_exit(scn[t].cx, FALSE)])
    /\ lastScan' = Ended(t, TRUE, db_exit(scn[t].cx, FALSE))
    /\ UNCHANGED <<clock, conn, last, ops>>
    /\ UNCHANGED <<fsMtime, fsGone, meta, opn, nscans, mq, timers, gui>>

(***************************************************************************)
(* scan_folder puts the ScanComplete message on the queue and ends.        *)
(***************************************************************************)
ScanSend(t) ==
    /\ scn[t].pc = "send"
    /\ mq' = Append(mq, [tag |-> "ScanComplete", payload |-> scn[t].root,
                         by |-> t])
    /\ scn' = [scn EXCEPT ![t].pc = "done",
                          ![t].sent = Append(@, "ScanComplete")]
    /\ UNCHANGED <<fsMtime, fsGone, meta, opn, nscans, timers, gui, lastScan>>
    /\ UNCHANGED storeVars

(***************************************************************************)
(* The GUI thread.                                                         *)
(***************************************************************************)
\* GUI._load_data, scheduled by GUI.__init__: folder_get_all and
\* video_get_all, outside any `with self.db` block, and a load_folder per
\* folder
GuiLoadData ==
    /\ ~gui.loaded
    /\ conn' = [conn EXCEPT !["gui"] = After(@, View("gui"), FALSE)]
    /\ timers' = timers \o
          [i \in 1..Cardinality(View("gui").folder) |->
              [fn |-> "load_folder", tag |-> "none",
               fldr |-> FolderList(View("gui").folder)[i], by |-> 0]]
    /\ gui' = [gui EXCEPT !.loaded = TRUE,
                          !.vids = {video_get_all(View("gui")).list[i] :
                                      i \in DOMAIN video_get_all(View("gui")).list}]
    /\ UNCHANGED <<clock, db, last, ops, dbver>>
    /\ UNCHANGED <<fsMtime, fsGone, meta, opn, scn, nscans, mq, lastScan>>

\* GUI.check_queue and the handle_msg call it schedules for every message
\* of the queue: a ScanComplete message schedules load_folder for its payload
GuiCheckQueue ==
    /\ mq # <<>>
    /\ timers' = timers \o
          [i \in 1..Len(mq) |->
              [fn |-> "load_folder", tag |-> mq[i].tag,
               fldr |-> mq[i].payload, by |-> mq[i].by]]
    /\ mq' = <<>>
    /\ UNCHANGED <<fsMtime, fsGone, meta, opn, scn, nscans, gui, lastScan>>
    /\ UNCHANGED storeVars

\* GUI.load_folder: video_get_by_folder inside `with self.db`, whose end
\* commits the GUI connection's transaction
GuiLoadFolder ==
    /\ timers # <<>>
    /\ Head(timers).fn = "load_folder"
    /\ gui' = [gui EXCEPT !.shown =
                 [fid |-> Head(timers).fldr.fid, by |-> Head(timers).by,
                  vids |-> {r.id : r \in
                              video_get_by_folder(View("gui"),
                                                  Head(timers).fldr.fid)}]]
    /\ conn' = [conn EXCEPT !["gui"] = FreshConn]
    /\ timers' = Tail(timers)
    /\ UNCHANGED <<clock, db, last, ops, dbver>>
    /\ UNCHANGED <<fsMtime, fsGone, meta, opn, scn, nscans, mq, lastScan>>

\* no handler of a menu item has run
NoAct == [op |-> "none", tag |-> NoId, vid |-> NoId, link |-> NULL,
          err |-> "none", pre |-> EmptyStore, gone |-> {}]

\* the methods that class Database defines
Methods ==
    {"close", "folder_add", "folder_update_scan", "folder_set_remote",
     "folder_get_all", "folder_get_by_id", "folder_get_by_path", "video_add",
     "video_set_title", "video_set_cksum", "video_set_mtime",
     "video_set_hidden", "video_get_by_id", "video_get_by_path",
     "video_get_by_folder", "video_get_all", "tag_add", "tag_link_create",
     "tag_link_get_by_tag", "tag_link_get_by_vid", "tag_get_all_vid",
     "tag_get_all", "tag_link_remove"}

\* the end of a handler of the GUI that ran a `with self.db` block on the
\* store st1, leaving it with an exception (ex) or without: act is the
\* record kept of the handler
GuiExit(st1, ex, act) ==
    LET cx == After(conn["gui"], st1, st1 # View("gui"))
    IN  /\ db' = db_exit(cx, ex)
        /\ dbver' = IF db_exit(cx, ex) # db THEN dbver + 1 ELSE dbver
        /\ conn' = [conn EXCEPT !["gui"] = FreshConn]
        /\ gui' = [gui EXCEPT !.act = [act EXCEPT !.pre = db,
                                                  !.gone = fsGone]]
        /\ UNCHANGED <<clock, last, ops>>
        /\ UNCHANGED <<fsMtime, fsGone, meta, opn, scn, nscans, mq, timers,
                       lastScan>>

\* GUI.vid_toggle_tag(widget, viter, vid, tag), the handler of an item of
\* the tag menu of a video: tag is a pair (Tag, link id or None) of
\* tag_get_all_vid(vid), of which _mk_ctx_menu_vid makes the menu
GuiToggleTag ==
    /\ gui.loaded
    /\ \E v \in gui.vids :
         \E i \in DOMAIN tag_get_all_vid(View("gui"), v.vid).list :
           LET tag == tag_get_all_vid(View("gui"), v.vid).list[i]
               res == IF tag[2] = NULL
                      THEN tag_link_create(View("gui"), tag[1].tid, v.vid)
                      ELSE tag_link_remove(View("gui"), tag[1].tid, v.vid)
               tags == tag_link_get_by_vid(res.st, v.vid)
           IN  GuiExit(res.st, ~res.ok \/ ~tags.ok,
                       [NoAct EXCEPT !.op = "vid_toggle_tag",
                                     !.tag = tag[1].tid, !.vid = v.vid,
                                     !.link = tag[2],
                                     !.err = IF ~res.ok THEN res.err
                                             ELSE tags.err])

\* GUI._purge: self.db.video_delete(vid) for every Video of self.vids whose
\* path is no file, inside one `with self.db` block; a method that
\* Database does not define raises AttributeError at the first call.  (A
\* DELETE FROM video would take the links along: ON DELETE CASCADE.)
GuiPurge ==
    /\ gui.loaded
    /\ LET missing == {v \in gui.vids : v.path \in fsGone}
           raises == missing # {} /\ "video_delete" \notin Methods
       IN  GuiExit(IF raises THEN View("gui")
                   ELSE CascadeVideos(View("gui"), {v.vid : v \in missing}),
                   raises,
                   [NoAct EXCEPT !.op = "purge",
                                 !.err = IF raises THEN "AttributeError"
                                         ELSE "none"])

\* the environment: a video file is removed
Unlink ==
    \E f \in FilePaths \ fsGone :
        /\ fsGone' = fsGone \cup {f}
        /\ UNCHANGED storeVars
        /\ UNCHANGED <<fsMtime, meta, opn, scn, nscans, mq, timers, gui,
                       lastScan>>

(***************************************************************************)
(* The environment: a file that has a Video row as new as the file is      *)
(* written to, and its st_mtime advances.                                  *)
(***************************************************************************)
Touch ==
    \E f \in Files, now \in Nows :
        /\ \E r \in db.video : r.path = f /\ fsMtime[f] <= FromStamp(r.mtime)
        /\ now > fsMtime[f]
        /\ fsMtime' = [fsMtime EXCEPT ![f] = now]
        /\ clock' = now
        /\ scn' = [u \in Threads |->
                     IF InScan(u) THEN [scn[u] EXCEPT !.quiet = FALSE]
                     ELSE scn[u]]
        /\ UNCHANGED <<db, conn, last, ops, dbver>>
        /\ UNCHANGED <<fsGone, meta, opn, nscans, mq, timers, gui, lastScan>>

(***************************************************************************)
(* Database.__init__: opening the store file at one location.  The openers *)
(* are threads of two processes; open_lock is a threading.Lock, so each    *)
(* process has its own.  opn holds the file (exists, schema), the locks,   *)
(* the openers, the number of __create_db calls (runs) and the number of   *)
(* them that failed on a fault of the environment, e.g. a full disk        *)
(* (faults).                                                               *)
(***************************************************************************)
Openers == {1, 2, 3, 4}
Procs == {"p", "q"}
ProcOf(o) == IF o \in {1, 2} THEN "p" ELSE "q"
NoOpener == 0

\* exist is the opener's local variable; schema is whether the store had the
\* schema when the handle was returned
IdleOpener == [pc |-> "idle", exist |-> FALSE, schema |-> FALSE]

OpenIdle ==
    [exists |-> FALSE, schema |-> FALSE,
     lock |-> [p \in Procs |-> NoOpener],
     who |-> [o \in Openers |-> IdleOpener],
     runs |-> 0, faults |-> 0]

Unlocked_Always(p) == TRUE

\* open_lock of process p is free
Unlocked(p) == opn.lock[p] = NoOpener

\* the exception leaves `with open_lock`: the lock is released and the
\* caller gets no handle
OpenFailed(o, ran, fault) ==
    [opn EXCEPT !.who[o].pc = "failed",
                !.lock[ProcOf(o)] = NoOpener,
                !.runs = @ + ran,
                !.faults = @ + fault]

\* `with open_lock:`
OpenBegin(o) ==
    /\ opn.who[o].pc = "idle"
    /\ Unlocked(ProcOf(o))
    /\ opn' = [opn EXCEPT !.lock[ProcOf(o)] = o, !.who[o].pc = "check"]
    /\ UNCHANGED <<storeVars, scanVars>>

\* exist = krylib.fexist(self.path)
OpenCheck(o) ==
    /\ opn.who[o].pc = "check"
    /\ opn' = [opn EXCEPT !.who[o].pc = "connect",
                          !.who[o].exist = opn.exists]
    /\ UNCHANGED <<storeVars, scanVars>>

\* sqlite3.connect and the PRAGMAs: the file is there afterwards
OpenConnect(o) ==
    /\ opn.who[o].pc = "connect"
    /\ opn' = [opn EXCEPT !.exists = TRUE,
                          !.who[o].pc = IF opn.who[o].exist THEN "return"
                                        ELSE "create"]
    /\ UNCHANGED <<storeVars, scanVars>>

\* __create_db: the statements of qinit in one transaction.  CREATE TABLE
\* fails when the table is there; a fault rolls the transaction back.
OpenCreate(o) ==
    /\ opn.who[o].pc = "create"
    /\ IF opn.schema
       THEN opn' = OpenFailed(o, 1, 0)
       ELSE \E fault \in BOOLEAN :
              opn' = IF fault THEN OpenFailed(o, 1, 1)
                     ELSE [opn EXCEPT !.schema = TRUE,
                                      !.runs = @ + 1,
                                      !.who[o].pc = "return"]
    /\ UNCHANGED <<storeVars, scanVars>>

\* the end of `with open_lock` and of __init__: the caller has its handle
OpenReturn(o) ==
    /\ opn.who[o].pc = "return"
    /\ opn' = [opn EXCEPT !.who[o].pc = "open",
                          !.who[o].schema = opn.schema,
                          !.lock[ProcOf(o)] = NoOpener]
    /\ UNCHANGED <<storeVars, scanVars>>

NoShown == [fid |-> NoId, by |-> 0, vids |-> {}]

\* GUI.__init__: self.vids is empty
IdleGui == [loaded |-> FALSE, shown |-> NoShown, vids |-> {}, act |-> NoAct]

\* the state of the parts a specification does not run
StoreIdle ==
    /\ last = NoCall
    /\ ops = 0

ScanIdle ==
    /\ fsMtime = [f \in Files |-> 0]
    /\ fsGone = {}
    /\ meta = [f \in Files |-> ProbeGood]
    /\ scn = [t \in Threads |-> IdleScanner]
    /\ nscans = 0
    /\ mq = <<>>
    /\ timers = <<>>
    /\ gui = IdleGui
    /\ lastScan = [ok |-> FALSE, path |-> "", mt |-> [f \in Files |-> 0],
                   db |-> EmptyStore]

(***************************************************************************)
(* Spec: a client of the Record Store on one connection.                   *)
(***************************************************************************)
Init ==
    /\ clock = 0
    /\ db = EmptyStore
    /\ dbver = 0
    /\ conn = [c \in Conns |-> FreshConn]
    /\ StoreIdle
    /\ ScanIdle
    /\ opn = OpenIdle

Next ==
    \/ FolderAdd
    \/ FolderDelete
    \/ VideoAdd
    \/ TagAdd
    \/ TagLinkCreate
    \/ TagLinkRemove
    \/ PersonAdd
    \/ PersonLinkAdd
    \/ ProgramAdd
    \/ ProgramAddVideo
    \/ Commit
    \/ Rollback

Spec == Init /\ [][Next]_vars

(***************************************************************************)
(* SpecScan: the GUI, its scanner threads and the file system, from a      *)
(* new store.  The probe's answer for a file is fixed for the behaviour.   *)
(***************************************************************************)
InitScan ==
    /\ clock = 0
    /\ db = EmptyStore
    /\ dbver = 0
    /\ conn = [c \in Conns |-> FreshConn]
    /\ StoreIdle
    /\ fsMtime = [f \in Files |-> 0]
    /\ fsGone = {}
    /\ meta \in {m \in [Files -> UNION {Probes(f) : f \in Files}] :
                    \A f \in Files : m[f] \in Probes(f)}
    /\ scn = [t \in Threads |-> IdleScanner]
    /\ nscans = 0
    /\ mq = <<>>
    /\ timers = <<>>
    /\ gui = IdleGui
    /\ lastScan = [ok |-> FALSE, path |-> "", mt |-> [f \in Files |-> 0],
                   db |-> EmptyStore]
    /\ opn = OpenIdle

NextScan ==
    \/ GuiLoadData
    \/ GuiAddFolder
    \/ \E t \in Threads : ScanBegin(t)
    \/ \E t \in Threads : ScanFile(t)
    \/ \E t \in Threads : ScanStamp(t)
    \/ \E t \in Threads : ScanCommit(t)
    \/ \E t \in Threads : ScanSend(t)
    \/ GuiCheckQueue
    \/ GuiLoadFolder
    \/ Touch

SpecScan == InitScan /\ [][NextScan]_vars

(***************************************************************************)
(* SpecLibrary: the same program on a store in use: the folder /a/b has    *)
(* been scanned, and its video has a tag, a person and a program.          *)
(***************************************************************************)
Library ==
    LET s1 == folder_add(EmptyStore, [NoFolder EXCEPT !.path = "/a/b"]).st
        s2 == video_add(s1, [vid |-> NoId, folder_id |-> 1,
                             path |-> "/a/b/y.mkv", mtime |-> 0,
                             xres |-> 1920, yres |-> 1080,
                             duration |-> 5400000], 0).st
        s3 == folder_update_scan(s2, 1, 0).st
        s4 == tag_link_create(tag_add(s3, "Action").st, 1, 1).st
        s5 == person_link_add(person_add(s4, "Ada").st, 1, 1, "Actor").st
    IN  program_add_video(program_add(s5, "Serial").st, 1, 1).st

InitLibrary ==
    /\ clock = 0
    /\ db = Library
    /\ dbver = 0
    /\ conn = [c \in Conns |-> FreshConn]
    /\ StoreIdle
    /\ fsMtime = [f \in Files |-> 0]
    /\ fsGone = {}
    /\ meta \in {m \in [Files -> UNION {Probes(f) : f \in Files}] :
                    \A f \in Files : m[f] \in Probes(f)}
    /\ scn = [t \in Threads |-> IdleScanner]
    /\ nscans = 0
    /\ mq = <<>>
    /\ timers = <<>>
    /\ gui = IdleGui
    /\ lastScan = [ok |-> FALSE, path |-> "", mt |-> [f \in Files |-> 0],
                   db |-> EmptyStore]
    /\ opn = OpenIdle

SpecLibrary == InitLibrary /\ [][NextScan]_vars

(***************************************************************************)
(* SpecEntity: a client that adds folders, videos and tags, sets their     *)
(* fields and looks them up, on one connection.                            *)
(***************************************************************************)
\* one client call; a session makes at most MaxCalls of them
Bounded(A) == ops < MaxCalls /\ A

NextEntity ==
    \/ Bounded(FolderAdd)
    \/ Bounded(VideoAddAny)
    \/ Bounded(TagAdd)
    \/ Bounded(TagLinkCreate)
    \/ Bounded(FolderUpdateScan)
    \/ Bounded(FolderSetRemote)
    \/ Bounded(VideoSetTitle)
    \/ Bounded(VideoSetCksum)
    \/ Bounded(VideoSetMtime)
    \/ Bounded(VideoSetHidden)
    \/ Bounded(FolderGetAll)
    \/ Bounded(FolderGetById)
    \/ Bounded(FolderGetByPath)
    \/ Bounded(VideoGetById)
    \/ Bounded(VideoGetByPath)
    \/ Bounded(Commit)
    \/ Bounded(Rollback)

SpecEntity == Init /\ [][NextEntity]_vars

(***************************************************************************)
(* SpecQuery: a client that runs the list queries on a populated store.    *)
(***************************************************************************)
InitQuery ==
    /\ clock = 0
    /\ db \in Stores
    /\ dbver = 0
    /\ conn = [c \in Conns |-> FreshConn]
    /\ StoreIdle
    /\ ScanIdle
    /\ opn = OpenIdle

NextQuery ==
    \/ Bounded(FolderGetAll)
    \/ Bounded(VideoGetAll)
    \/ Bounded(VideoGetByFolder)
    \/ Bounded(TagGetAll)
    \/ Bounded(TagLinkGetByTag)
    \/ Bounded(TagLinkGetByVid)
    \/ Bounded(TagGetAllVid)

SpecQuery == InitQuery /\ [][NextQuery]_vars

(***************************************************************************)
(* SpecGui: the GUI on a populated store; the user toggles tags of videos  *)
(* and purges, while video files are removed.                              *)
(***************************************************************************)
NextGui ==
    \/ GuiLoadData
    \/ GuiLoadFolder
    \/ GuiToggleTag
    \/ GuiPurge
    \/ Unlink

SpecGui == InitQuery /\ [][NextGui]_vars

(***************************************************************************)
(* SpecOpen: threads of two processes open a store location that does not  *)
(* exist yet.                                                              *)
(***************************************************************************)
NextOpen ==
    \/ \E o \in Openers : OpenBegin(o)
    \/ \E o \in Openers : OpenCheck(o)
    \/ \E o \in Openers : OpenConnect(o)
    \/ \E o \in Openers : OpenCreate(o)
    \/ \E o \in Openers : OpenReturn(o)

SpecOpen == Init /\ [][NextOpen]_vars

(***************************************************************************)
(* Properties of the Record Store (specification Spec).                    *)
(***************************************************************************)
FolderRows(st, path) == {r \in st.folder : r.path = path}
TagLinkRows(st, tid, vid) ==
    {r \in st.tag_vid_link : r.tag_id = tid /\ r.vid_id = vid}
PersonLinkRows(st, pid, vid, role) ==
    {r \in st.person_vid_link : r.pid = pid /\ r.vid = vid /\ r.role = role}

\* C3: folder_add of a path that already has a folder row fails with an
\* integrity violation; afterwards there is exactly one row with that path
\* and it is the row (identifier included) the first add stored.
C3_SecondFolderAddFails ==
    (last.op = "folder_add" /\ FolderRows(last.pre, last.key[1]) # {})
        => /\ ~last.ok
           /\ last.err = "integrity"
           /\ Cardinality(FolderRows(last.post, last.key[1])) = 1
           /\ FolderRows(last.post, last.key[1])
                = FolderRows(last.pre, last.key[1])

C3_Witness ==
    /\ last.op = "folder_add"
    /\ FolderRows(last.pre, last.key[1]) # {}
    /\ ~last.ok

\* C4: deleting a folder row removes every video of that folder and every
\* tag, person and program link of those videos, and nothing else: the other
\* folders, the videos of other folders, their links and every tag, person
\* and program row remain.
C4_FolderDeleteCascades ==
    last.op = "folder_delete" =>
        LET fid == last.key[1]
            pre == last.pre
            post == last.post
            gone == {v.id : v \in {w \in pre.video : w.folder_id = fid}}
        IN  /\ \A f \in post.folder : f.id # fid
            /\ \A v \in post.video : v.folder_id # fid
            /\ \A l \in post.tag_vid_link : l.vid_id \notin gone
            /\ \A l \in post.person_vid_link : l.vid \notin gone
            /\ \A l \in post.prog_vid_link : l.vid_id \notin gone
            /\ \A f \in pre.folder : f.id # fid => f \in post.folder
            /\ \A v \in pre.video : v.folder_id # fid => v \in post.video
            /\ \A l \in pre.tag_vid_link :
                   l.vid_id \notin gone => l \in post.tag_vid_link
            /\ \A l \in pre.person_vid_link :
                   l.vid \notin gone => l \in post.person_vid_link
            /\ \A l \in pre.prog_vid_link :
                   l.vid_id \notin gone => l \in post.prog_vid_link
            /\ post.folder \subseteq pre.folder
            /\ post.video \subseteq pre.video
            /\ post.tag_vid_link \subseteq pre.tag_vid_link
            /\ post.person_vid_link \subseteq pre.person_vid_link
            /\ post.prog_vid_link \subseteq pre.prog_vid_link
            /\ post.tag = pre.tag
            /\ post.person = pre.person
            /\ post.program = pre.program

\* a folder with a video that carries a person link is deleted while
\* another folder exists
C4_Witness ==
    /\ last.op = "folder_delete"
    /\ \E v \in last.pre.video :
          /\ v.folder_id = last.key[1]
          /\ \E l \in last.pre.person_vid_link : l.vid = v.id
    /\ last.post.folder # {}
    /\ last.post.person # {}

\* C5: a tag_link_create of a pair that is linked fails with an integrity
\* violation and leaves the store as it was, and no store any connection
\* sees, nor the committed one, holds two link rows of one pair.
C5_TagLinkOncePerPair ==
    /\ \A tid \in Ids, vid \in Ids :
          /\ Cardinality(TagLinkRows(db, tid, vid)) <= 1
          /\ \A c \in Conns : Cardinality(TagLinkRows(View(c), tid, vid)) <= 1
    /\ (last.op = "tag_link_create"
          /\ TagLinkRows(last.pre, last.key[1], last.key[2]) # {})
        => /\ ~last.ok
           /\ last.err = "integrity"
           /\ last.post = last.pre
           /\ Cardinality(TagLinkRows(last.post, last.key[1], last.key[2])) = 1

C5_Witness ==
    /\ last.op = "tag_link_create"
    /\ TagLinkRows(last.pre, last.key[1], last.key[2]) # {}
    /\ ~last.ok

C7_CreateThenRemove ==
    last.undo =>
        LET tid == last.key[1]
            vid == last.key[2]
        IN  /\ last.post = last.base
            /\ Cardinality(TagLinkRows(last.base, tid, vid)) = 0
            /\ Cardinality(TagLinkRows(last.pre, tid, vid)) = 1
            /\ Cardinality(TagLinkRows(last.post, tid, vid)) = 0
            /\ last.pre.tag = last.base.tag
            /\ last.pre.video = last.base.video
            /\ last.pre.tag_vid_link \ TagLinkRows(last.pre, tid, vid)
                 = last.base.tag_vid_link
            /\ \E t \in last.post.tag : t.id = tid
            /\ \E v \in last.post.video : v.id = vid

C7_Witness ==
    /\ last.undo
    /\ last.op = "tag_link_remove"
    /\ last.rc = 1

(***************************************************************************)
(* Properties of the Reconciliation Scanner and the GUI (specification     *)
(* SpecScan).                                                              *)
(***************************************************************************)
Finished(t) == scn[t].pc \in {"send", "done"}
Over(t) == scn[t].pc \in {"dead", "send", "done"}
PathRows(st, f) == {r \in st.video : r.path = f}
StampOf(st, path) == {r.last_scan : r \in FolderRows(st, path)}

\* C1: a scan that directly follows a successful scan of the same root, with
\* the tree and the store as that scan left them, succeeds too and leaves the
\* Video rows as they were, one row per eligible file.
C1_RescanIdempotent ==
    \A t \in Threads :
        (scn[t].rescan /\ scn[t].quiet /\ Over(t)) =>
            /\ Finished(t)
            /\ scn[t].post.video = scn[t].pre.video
            /\ \A f \in Eligible(scn[t].path) :
                   Cardinality(PathRows(scn[t].post, f)) = 1

\* C2: a scan that finds the Video row of a file with an mtime older than
\* the file's succeeds, and that row differs afterwards in its mtime only,
\* which is the file's; its links are the same and it is the one row of its
\* path.
C2_NewerMtimeOnly ==
    \A t \in Threads :
        (scn[t].bumped # {} /\ scn[t].quiet /\ Over(t)) =>
            /\ Finished(t)
            /\ \A b \in scn[t].bumped :
                 /\ [b.row EXCEPT !.mtime = ToStamp(b.m)] \in scn[t].post.video
                 /\ PathRows(scn[t].post, b.row.path)
                      = {[b.row EXCEPT !.mtime = ToStamp(b.m)]}
                 /\ {l \in scn[t].post.tag_vid_link : l.vid_id = b.row.id}
                      = {l \in scn[t].pre.tag_vid_link : l.vid_id = b.row.id}
                 /\ {l \in scn[t].post.person_vid_link : l.vid = b.row.id}
                      = {l \in scn[t].pre.person_vid_link : l.vid = b.row.id}

\* what the Video row of file f holds of the probe's answer: width, height
\* and duration of the first video track, or the 0 x 0 resolution and no
\* duration when the probe finds no tracks
Probed(f) ==
    IF meta[f].tracks THEN <<meta[f].w, meta[f].h, meta[f].dur>>
    ELSE <<0, 0, NULL>>

\* C8: a scan of a root that had no Folder row, once it has committed, has
\* left exactly one Folder row of the root and for each eligible file
\* exactly one Video row of that folder, with the probe's resolution and
\* duration and hidden = false; and such a scan, run alone on a tree of
\* regular files, does commit when the probe returns a resolution and a
\* duration for every eligible file.
C8_FirstScan ==
    \A t \in Threads :
        scn[t].newRoot =>
            /\ Finished(t) =>
                 /\ FolderRows(scn[t].post, scn[t].path)
                      = {r \in scn[t].post.folder : r.id = scn[t].root.fid}
                 /\ Cardinality(FolderRows(scn[t].post, scn[t].path)) = 1
                 /\ \A f \in Eligible(scn[t].path) :
                      LET rows == {r \in PathRows(scn[t].post, f) :
                                      r.folder_id = scn[t].root.fid}
                      IN  /\ Cardinality(rows) = 1
                          /\ \A r \in rows :
                                /\ <<r.xres, r.yres, r.duration>> = Probed(f)
                                /\ r.hidden = 0
                 /\ \A r \in video_get_by_folder(scn[t].post, scn[t].root.fid) :
                      r.path \in Eligible(scn[t].path)
            /\ (Over(t) /\ scn[t].quiet /\ Regular(scn[t].path)
                  /\ \A f \in Eligible(scn[t].path) : meta[f] = ProbeGood)
                 => Finished(t)

\* the first scan of /a has committed the rows of its two eligible files
C8_Witness ==
    \E t \in Threads :
        /\ scn[t].newRoot
        /\ scn[t].pc = "done"
        /\ Cardinality(Eligible(scn[t].path)) = 2
        /\ Cardinality(video_get_by_folder(scn[t].post, scn[t].root.fid)) = 2
        /\ \E f \in Eligible(scn[t].path) : meta[f] = ProbeNoTracks

\* C9 as stated: one last_scan write per scan at most and after the last
\* file; a successful scan leaves a later last_scan than it found; a failed
\* scan leaves the last_scan it found.
C9_LastScanAdvances ==
    \A t \in Threads :
        /\ scn[t].stamps <= 1
        /\ scn[t].stamps = 1 => scn[t].todo = <<>>
        /\ Finished(t) =>
             \A new \in StampOf(scn[t].post, scn[t].path),
                old \in StampOf(scn[t].pre, scn[t].path) : new > old
        /\ Finished(t) => StampOf(scn[t].post, scn[t].path) # {}
        /\ (scn[t].pc = "dead" /\ scn[t].quiet) =>
             StampOf(scn[t].post, scn[t].path)
               = StampOf(scn[t].pre, scn[t].path)

\* C9, amended: one last_scan write per scan at most and after the last
\* file; a successful scan stores the time of that write in whole seconds,
\* which is never earlier than the last_scan it found; a failed scan has
\* written no last_scan and leaves the one it found.
C9_LastScanWholeSeconds ==
    \A t \in Threads :
        /\ scn[t].stamps <= 1
        /\ scn[t].stamps = 1 => scn[t].todo = <<>>
        /\ Finished(t) =>
             /\ scn[t].stamps = 1
             /\ StampOf(scn[t].post, scn[t].path)
                  = {ToStamp(scn[t].root.last_scan)}
             /\ \A old \in StampOf(scn[t].pre, scn[t].path) :
                   ToStamp(scn[t].root.last_scan) >= old
        /\ scn[t].pc = "dead" => scn[t].stamps = 0
        /\ (scn[t].pc = "dead" /\ scn[t].quiet) =>
             StampOf(scn[t].post, scn[t].path)
               = StampOf(scn[t].pre, scn[t].path)

\* a second scan of a root has succeeded and stored a later second
C9_Witness ==
    \E t \in Threads :
        /\ Finished(t)
        /\ ~scn[t].newRoot
        /\ \E old \in StampOf(scn[t].pre, scn[t].path) :
              old # NULL /\ ToStamp(scn[t].root.last_scan) > old

\* C10: a scan has made all its video writes when it writes last_scan; its
\* ScanComplete message is on the queue only when its transaction is
\* committed; and while the GUI holds a ScanComplete message it has taken
\* from the queue, the store its connection reads has every Video row the
\* scan inserted and the scan's last_scan, or a later one.
C10_ScanCompleteVisible ==
    /\ \A t \in Threads : scn[t].stamps = 1 => scn[t].todo = <<>>
    /\ \A i \in DOMAIN mq :
          /\ scn[mq[i].by].pc = "done"
          /\ \A id \in scn[mq[i].by].wrote : \E r \in db.video : r.id = id
          /\ \A r \in FolderRows(db, mq[i].payload.path) :
                r.last_scan >= ToStamp(mq[i].payload.last_scan)
    /\ \A i \in DOMAIN timers :
          timers[i].tag = "ScanComplete" =>
              /\ \A id \in scn[timers[i].by].wrote :
                    \E r \in View("gui").video : r.id = id
              /\ \E r \in View("gui").folder :
                    /\ r.id = timers[i].fldr.fid
                    /\ r.last_scan >= ToStamp(timers[i].fldr.last_scan)

\* C11: a scan thread that has ended has put exactly one message on the
\* queue: ScanComplete when the scan succeeded, ScanError when it failed.
C11_OneMessagePerScan ==
    \A t \in Threads :
        /\ scn[t].pc = "done" => scn[t].sent = <<"ScanComplete">>
        /\ scn[t].pc = "dead" => scn[t].sent = <<"ScanError">>

\* C12: a scan of a new root of regular files, run alone, commits and
\* stamps last_scan whatever the probe answers for its files (it raises,
\* finds no tracks, gives half a resolution or a duration of 0), and every
\* eligible file has its row.
C12_ProbeNeverFatal ==
    \A t \in Threads :
        (scn[t].newRoot /\ scn[t].quiet /\ Over(t) /\ Regular(scn[t].path)) =>
            /\ Finished(t)
            /\ scn[t].stamps = 1
            /\ StampOf(scn[t].post, scn[t].path) # {NULL}
            /\ \A f \in Eligible(scn[t].path) : PathRows(scn[t].post, f) # {}

(***************************************************************************)
(* The entries of the walk and the root folder (specification SpecScan).   *)
(***************************************************************************)
\* a regular file with a video suffix and of min_size bytes at least
Recognized(f) ==
    /\ Kind(f) = "file"
    /\ Suffix(f) \in suffix_pat
    /\ FileSize(f) >= min_size
\* the calls of the store and of the probe
StoreOrProbe == {"get", "set_mtime", "probe", "add", "set_title"}
\* the scan of thread t has come to entry f
Met(t, f) == \E c \in StoreOrProbe \cup {"stat", "skip"} : <<f, c>> \in scn[t].did

\* C26: an entry of the walk is looked up in the store if and only if it
\* is a regular file with a video suffix and of 100 MiB at least; every
\* other entry is skipped, with no call of the store or of the probe.
C26_OnlyLargeVideoFiles ==
    \A t \in Threads, f \in Files :
        Met(t, f) =>
            IF Recognized(f)
            THEN <<f, "get">> \in scn[t].did
            ELSE /\ <<f, "skip">> \in scn[t].did
                 /\ \A c \in StoreOrProbe : <<f, c>> \notin scn[t].did

\* the store that holds what the scan of thread t has written
Own(t) == IF InScan(t) THEN ScanView(t) ELSE scn[t].post

\* C27: while a scan walks the tree and when it has committed, its root has
\* exactly one Folder row: the row that was there when it began, or else
\* the one row the scan has added, before the first file; and every Video
\* row the scan has inserted has that row's id as its folder_id.
C27_OneFolderPerRoot ==
    \A t \in Threads :
        (InScan(t) \/ Finished(t)) =>
            LET me == scn[t]
                had == FolderRows(me.pre, me.path)
            IN  /\ {r.id : r \in FolderRows(Own(t), me.path)} = {me.root.fid}
                /\ Cardinality(FolderRows(Own(t), me.path)) = 1
                /\ me.newRoot = (had = {})
                /\ {r.id : r \in Own(t).folder} =
                      {r.id : r \in me.pre.folder}
                         \cup (IF had = {} THEN {me.root.fid} ELSE {})
                /\ \A id \in me.wrote :
                      /\ \E r \in Own(t).video : r.id = id
                      /\ \A r \in Own(t).video :
                            r.id = id => r.folder_id = me.root.fid

\* a scan that created its folder has committed two videos, and another
\* scan walks a root whose folder it found
C27_Witness ==
    \E t, u \in Threads :
        /\ Finished(t)
        /\ scn[t].newRoot
        /\ Cardinality(scn[t].wrote) = 2
        /\ InScan(u)
        /\ ~scn[u].newRoot

\* C29: a Folder row that the committed store, or a reader of it, shows
\* with a last_scan is the root of a scan that has committed, and holds
\* the time that scan has stamped.
C29_StampedOnlyByCompletedScan ==
    \A r \in db.folder \cup View("gui").folder :
        r.last_scan # NULL =>
            \E t \in Threads :
                /\ Finished(t)
                /\ scn[t].path = r.path
                /\ scn[t].root.fid = r.id
                /\ ToStamp(scn[t].root.last_scan) = r.last_scan

\* the store shows a stamped folder while another scan, which has created
\* its folder and inserted a video, has not committed
C29_Witness ==
    /\ \E r \in db.folder : r.last_scan # NULL
    /\ \E u \in Threads :
          /\ InScan(u)
          /\ scn[u].newRoot
          /\ scn[u].wrote # {}
          /\ FolderRows(db, scn[u].path) = {}

\* C30: for a file whose path has a Video row when the scan looks it up,
\* the scan calls neither the probe nor video_add nor video_set_title.
C30_KnownFileNotProbed ==
    \A t \in Threads, f \in Files :
        <<f, "found">> \in scn[t].did =>
            /\ <<f, "probe">> \notin scn[t].did
            /\ <<f, "add">> \notin scn[t].did
            /\ <<f, "set_title">> \notin scn[t].did

(***************************************************************************)
(* New files, and what a scan leaves of itself and of the rest of the      *)
(* store (specification SpecScan).                                         *)
(***************************************************************************)
\* the scan of thread t looked file f up, got no row and had the probe's
\* answer for it
NewFile(t, f) ==
    /\ <<f, "get">> \in scn[t].did
    /\ <<f, "found">> \notin scn[t].did
    /\ <<f, "probe">> \in scn[t].did
    /\ ~meta[f].raises
\* the title the probe returned is not empty
Titled(f) == meta[f].tracks /\ meta[f].title \notin {NoText, ""}

Under(path, root) == \E i \in DOMAIN Walk(root) : Walk(root)[i] = path

\* C33: what a scan of root R has written, while it walks and when it has
\* committed, leaves as they were when it began the Folder rows of the
\* other paths, the Video rows whose path is not under R, the Tag, Person
\* and Program rows and all link rows; a Folder row that R had differs in
\* its last_scan at most.
C33_ScanLeavesTheRestAlone ==
    \A t \in Threads :
        (InScan(t) \/ Finished(t)) =>
            LET me == scn[t]
                now == Own(t)
            IN  /\ {r \in now.folder : r.path # me.path}
                      = {r \in me.pre.folder : r.path # me.path}
                /\ {r \in now.video : ~Under(r.path, me.path)}
                      = {r \in me.pre.video : ~Under(r.path, me.path)}
                /\ \A tbl \in {"tag", "person", "program", "tag_vid_link",
                                "person_vid_link", "prog_vid_link"} :
                      now[tbl] = me.pre[tbl]
                /\ \A r \in FolderRows(me.pre, me.path) :
                      \E n \in now.folder :
                          [n EXCEPT !.last_scan = r.last_scan] = r

\* a scan of /a has committed: it has set the mtime of the tagged video of
\* /a/b, which the file system shows newer, and inserted a row
C33_Witness ==
    \E t \in Threads :
        /\ Finished(t)
        /\ scn[t].path = "/a"
        /\ scn[t].bumped # {}
        /\ scn[t].wrote # {}
        /\ db.tag_vid_link # {}
        /\ db.video # scn[t].pre.video

\* C34: the committed store has at most one Video row of any file path,
\* whatever scans have run, also for roots that lie inside one another.
C34_OneRowPerPath ==
    \A f \in Files : Cardinality(PathRows(db, f)) <= 1

\* C35: when two scans of one root that had no Folder row, run by two
\* threads in any interleaving, are both over, the committed store has
\* exactly one Folder row of the root and at most one Video row of each
\* file, and each scan has either committed all its writes or left none.
C35_TwoScansOfOneRoot ==
    \A t, u \in Threads :
        (/\ t # u
         /\ scn[t].path = scn[u].path
         /\ Over(t) /\ Over(u)
         /\ FolderRows(scn[t].pre, scn[t].path) = {}
         /\ FolderRows(scn[u].pre, scn[u].path) = {}) =>
            /\ Cardinality(FolderRows(db, scn[t].path)) = 1
            /\ \A f \in Files : Cardinality(PathRows(db, f)) <= 1
            /\ \A w \in {t, u} :
                  IF Finished(w)
                  THEN /\ \E r \in db.folder : r.id = scn[w].root.fid
                       /\ \A id \in scn[w].wrote :
                             \E r \in db.video : r.id = id
                  ELSE /\ ~scn[w].cx.writer
                       /\ \A r \in db.video :
                             \E v \in Threads : Finished(v) /\ r.id \in scn[v].wrote

\* C39: when a scan has ended, by returning or by an exception, the stat
\* cache of its Scanner is empty, so that a later scan of that Scanner
\* finds no stat result of this one.
C39_CacheDiscarded ==
    \A t \in Threads : Over(t) => scn[t].cache = {}

\* C32: a scan is atomic.  The step in which an exception leaves scan()
\* leaves the committed store as it was, and so does every step of a scan
\* before its commit; the commit makes the committed store the store with
\* all the writes of the scan.  A scan that ran alone and failed has left
\* the store it began on (no Video row, no Folder row, no mtime of it), and
\* one that returned has left its folder and every Video row it inserted.
C32_ScanIsAtomic ==
    /\ [](\A t \in Threads :
            /\ (scn[t].pc = "dead" /\ scn[t].quiet) =>
                  scn[t].post = scn[t].pre /\ ~scn[t].cx.writer
            /\ Finished(t) =>
                  /\ FolderRows(scn[t].post, scn[t].path) # {}
                  /\ \A id \in scn[t].wrote :
                        \E r \in scn[t].post.video : r.id = id)
    /\ [][\A t \in Threads :
            /\ (scn[t].pc # "dead" /\ scn'[t].pc = "dead") => db' = db
            /\ (scn[t].pc \in {"start", "walk"}
                  /\ <<scn'[t].pc, scn'[t].todo>> # <<scn[t].pc, scn[t].todo>>)
                  => db' = db
            /\ (scn[t].pc = "commit" /\ scn'[t].pc = "send") =>
                  db' = ScanView(t)]_vars

\* a scan that had created its folder and inserted a video has failed, and
\* the committed store has no row of it
C32_Witness ==
    \E t \in Threads :
        /\ scn[t].pc = "dead"
        /\ scn[t].quiet
        /\ scn[t].newRoot
        /\ scn[t].wrote # {}
        /\ db = scn[t].pre
        /\ FolderRows(db, scn[t].path) = {}

(***************************************************************************)
(* Properties of opening the store (specification SpecOpen).               *)
(***************************************************************************)
\* only threads of one process have begun to open the location
OneProcess ==
    \E p \in Procs :
        \A o \in Openers : ProcOf(o) # p => opn.who[o].pc = "idle"

\* no open has failed, __create_db has been called once at most, and every
\* handle returned was returned by a store with the schema after exactly
\* one call of __create_db
CreatedOnce ==
    /\ opn.runs <= 1
    /\ \A o \in Openers :
          /\ opn.who[o].pc # "failed"
          /\ opn.who[o].pc = "open" =>
                /\ opn.who[o].schema
                /\ opn.runs = 1

\* C13: when threads of one process open a location that does not exist, in
\* any interleaving, and no creation fails on a fault, the schema is created
\* exactly once and every handle returned sees the schema.
C13_OpenOnceInProcess ==
    (OneProcess /\ opn.faults = 0) => CreatedOnce

\* both threads of a process hold a handle
C13_Witness ==
    /\ OneProcess
    /\ opn.faults = 0
    /\ Cardinality({o \in Openers : opn.who[o].pc = "open"}) = 2

\* C14: the same for the threads of several processes.
C14_OpenOnceAcrossProcesses ==
    opn.faults = 0 => CreatedOnce

\* C15: within one process, a handle is only ever returned by a store that
\* has the schema, also after a creation that failed.
C15_NoHandleWithoutSchema ==
    OneProcess =>
        \A o \in Openers : opn.who[o].pc = "open" => opn.who[o].schema

(***************************************************************************)
(* Writes and lookups of entities (specification SpecEntity).              *)
(***************************************************************************)
\* the field of the entity an add assigns the new id to, and the field a
\* setter assigns its second argument to
IdField == [folder_add |-> "fid", video_add |-> "vid", tag_add |-> "tid"]
SetField == [folder_update_scan |-> "last_scan",
             folder_set_remote |-> "remote",
             video_set_title |-> "title",
             video_set_cksum |-> "cksum",
             video_set_mtime |-> "mtime",
             video_set_hidden |-> "hidden"]
WriteOps == DOMAIN IdField \cup DOMAIN SetField \cup {"tag_link_create"}

\* C16: a write that fails leaves the store and the entity passed to it as
\* they were; after a successful add the entity carries the id of the row
\* the store has created, and after a successful setter the new value.
C16_FailedWriteChangesNothing ==
    last.op \in WriteOps =>
        /\ ~last.ok =>
              /\ last.post = last.pre
              /\ last.ent = last.arg
        /\ (last.ok /\ last.op \in DOMAIN IdField) =>
              /\ last.rc > 0
              /\ last.ent[IdField[last.op]] = last.rc
              /\ \E r \in last.post[AddTable[last.op]] :
                    /\ r.id = last.rc
                    /\ r \notin last.pre[AddTable[last.op]]
        /\ (last.ok /\ last.op = "video_add") => last.ent.added = clock
        /\ (last.ok /\ last.op \in DOMAIN SetField) =>
              last.ent[SetField[last.op]] = last.key[2]

\* a setter has failed on a row that exists, with an entity whose field
\* differs from the value that was refused
C16_Witness ==
    /\ last.op = "video_set_hidden"
    /\ ~last.ok
    /\ last.arg.hidden # last.key[2]
    /\ \E r \in last.pre.video : r.id = last.key[1]

\* the rows of the store the lookup ran on that match its key
Matching ==
    CASE last.op = "folder_get_by_id" ->
            {r \in last.pre.folder : r.id = last.key[1]}
      [] last.op = "folder_get_by_path" ->
            {r \in last.pre.folder : r.path = last.key[1]}
      [] last.op = "video_get_by_id" ->
            {r \in last.pre.video : r.id = last.key[1]}
      [] last.op = "video_get_by_path" ->
            {r \in last.pre.video : r.path = last.key[1]}
      [] OTHER -> {}
GetOps == {"folder_get_by_id", "folder_get_by_path",
           "video_get_by_id", "video_get_by_path"}

\* C17: a lookup of a folder or a video by id or by path that matches no
\* row returns None, raises nothing and leaves the store as it was.
C17_MissReturnsNone ==
    (last.op \in GetOps /\ Matching = {}) =>
        /\ last.ok
        /\ last.ret = {}
        /\ last.post = last.pre

\* a lookup by path has missed in a table that holds rows
C17_Witness ==
    /\ last.op = "video_get_by_path"
    /\ Matching = {}
    /\ last.pre.video # {}

\* C18: after a successful folder_add(f), folder_get_by_id(f.fid) and
\* folder_get_by_path(f.path) return a Folder with the fid, path and remote
\* flag of f and no last_scan, and folder_get_all returns the folders it
\* returned before and f; after a folder_add that was rejected it returns
\* what it returned before.
C18_AddedFoldersAreFound ==
    last.op = "folder_add" =>
        /\ last.ok =>
              /\ last.ent.last_scan = NULL
              /\ folder_get_by_id(last.post, last.ent.fid) =
                    Found({last.ent})
              /\ folder_by_path(last.post, last.ent.path) =
                    Found({last.ent})
              /\ last.ent \notin folder_get_all(last.pre).ret
              /\ folder_get_all(last.post).ret =
                    folder_get_all(last.pre).ret \cup {last.ent}
        /\ ~last.ok =>
              folder_get_all(last.post) = folder_get_all(last.pre)

\* a second folder has been added, a remote one
C18_Witness ==
    /\ last.op = "folder_add"
    /\ last.ok
    /\ last.ent.remote = 1
    /\ Cardinality(folder_get_all(last.post).ret) = 2

\* C19: after folder_update_scan(f, s), f.last_scan is s and
\* folder_get_by_id(f.fid) returns the folder as it was with last_scan = s
\* cut to whole seconds; every other folder is as it was.
C19_UpdateScanOneFolder ==
    last.op = "folder_update_scan" =>
        /\ last.ok
        /\ last.ent.last_scan = last.key[2]
        /\ \A r \in last.pre.folder :
              r.id = last.key[1] =>
                 folder_get_by_id(last.post, r.id) =
                    Found({[FolderOf(r) EXCEPT
                              !.last_scan = FromStamp(ToStamp(last.key[2]))]})
        /\ {r \in last.post.folder : r.id # last.key[1]} =
              {r \in last.pre.folder : r.id # last.key[1]}

\* one of two folders has been stamped with a time that is no whole second
C19_Witness ==
    /\ last.op = "folder_update_scan"
    /\ last.key[2] # FromStamp(ToStamp(last.key[2]))
    /\ \E r \in last.pre.folder : r.id = last.key[1]
    /\ \E r \in last.pre.folder : r.id # last.key[1]

(***************************************************************************)
(* Removing a link that does not exist (specification Spec).               *)
(***************************************************************************)
\* C21: tag_link_remove(T, V) for a pair that has no link row raises
\* nothing, leaves every table as it was and logs one record.
C21_RemoveMissingLinkLogs ==
    (last.op = "tag_link_remove"
       /\ TagLinkRows(last.pre, last.key[1], last.key[2]) = {}) =>
        /\ last.ok
        /\ last.post = last.pre
        /\ Len(last.log) = 1

\* the pair is not linked, while its tag and its video exist and another
\* pair is linked
C21_Witness ==
    /\ last.op = "tag_link_remove"
    /\ TagLinkRows(last.pre, last.key[1], last.key[2]) = {}
    /\ \E t \in last.pre.tag : t.id = last.key[1]
    /\ \E v \in last.pre.video : v.id = last.key[2]
    /\ last.pre.tag_vid_link # {}

\* a resolution with both components or none, and a positive duration or
\* none
WellFormed(x, y, d) ==
    /\ (x = NULL /\ y = NULL) \/ (x # NULL /\ y # NULL)
    /\ d = NULL \/ d > 0

\* C28: every Video row, committed or of the open transaction, has both
\* components of the resolution or none and a positive duration or none,
\* and a video_add that would break this is rejected and changes no row.
C28_VideoRowsWellFormed ==
    /\ \A r \in db.video \cup View("client").video :
          WellFormed(r.xres, r.yres, r.duration)
    /\ (last.op = "video_add"
          /\ ~WellFormed(last.arg.xres, last.arg.yres, last.arg.duration)) =>
            /\ ~last.ok
            /\ last.post = last.pre

\* a Video with a duration of 0 was refused for that alone, by a store
\* that holds a Video without resolution and duration
C28_Witness ==
    /\ last.op = "video_add"
    /\ ~last.ok
    /\ last.arg.duration = 0
    /\ \E f \in last.pre.folder : f.id = last.arg.folder_id
    /\ \E r \in last.pre.video :
          /\ r.xres = NULL
          /\ r.duration = NULL
          /\ r.path # last.arg.path

(***************************************************************************)
(* The list queries (specification SpecQuery).                             *)
(***************************************************************************)
\* the elements of a list, each once
Elems(list) == {list[i] : i \in DOMAIN list}
NoDuplicates(list) ==
    \A i, j \in DOMAIN list : i # j => list[i] # list[j]
\* the entities of a list are in the order of their paths / of their names
PathSorted(list) ==
    \A i, j \in DOMAIN list :
        i < j => Rank(list[i].path) <= Rank(list[j].path)
NameSorted(list) ==
    \A i, j \in DOMAIN list :
        i < j => Rank(list[i].name) <= Rank(list[j].name)

\* C22: tag_link_get_by_vid(v) raises nothing and returns the tags that
\* have a link row to v, none when there is no such row.
C22_TagsOfVideo ==
    last.op = "tag_link_get_by_vid" =>
        /\ last.ok
        /\ Elems(last.list) =
              {TagOf(t) : t \in {x \in last.pre.tag :
                                   TagLinkRows(last.pre, x.id, last.key[1])
                                      # {}}}

\* C23: tag_get_all_vid(v) returns every tag once, in the order of the
\* names, each with the id of its link row to v, or with NULL when it has
\* no link row to v, whatever other videos it is linked to.
C23_AllTagsWithFlag ==
    last.op = "tag_get_all_vid" =>
        /\ last.ok
        /\ Len(last.list) = Cardinality(last.pre.tag)
        /\ {pair[1] : pair \in Elems(last.list)} =
              {TagOf(t) : t \in last.pre.tag}
        /\ \A i, j \in DOMAIN last.list :
              i < j => Rank(last.list[i][1].name) < Rank(last.list[j][1].name)
        /\ \A pair \in Elems(last.list) :
              LET rows == TagLinkRows(last.pre, pair[1].tid, last.key[1])
              IN  IF rows = {} THEN pair[2] = NULL
                  ELSE pair[2] \in {l.id : l \in rows}

\* of two tags, listed against the order of their ids, one is linked to
\* the video and the other to another video only
C23_Witness ==
    /\ last.op = "tag_get_all_vid"
    /\ Len(last.list) = 2
    /\ last.list[1][1].tid > last.list[2][1].tid
    /\ \E pair \in Elems(last.list) : pair[2] # NULL
    /\ \E pair \in Elems(last.list) :
          /\ pair[2] = NULL
          /\ \E l \in last.pre.tag_vid_link : l.tag_id = pair[1].tid

\* the path of the folder that owns a video
OwnerPath(st, v) ==
    CHOOSE path \in RootPaths :
        \E f \in st.folder : f.id = v.folder_id /\ f.path = path

\* C24: tag_link_get_by_tag(t) returns the videos linked to t, each once,
\* in the order of the paths of their folders and, within a folder, of
\* their own paths; none when t has no links.
C24_VideosOfTag ==
    last.op = "tag_link_get_by_tag" =>
        /\ last.ok
        /\ NoDuplicates(last.list)
        /\ Elems(last.list) =
              {VideoOf(v) : v \in {x \in last.pre.video :
                                     TagLinkRows(last.pre, last.key[1], x.id)
                                        # {}}}
        /\ \A i, j \in DOMAIN last.list :
              i < j =>
                LET a == last.list[i]
                    b == last.list[j]
                IN  \/ Rank(OwnerPath(last.pre, a))
                         < Rank(OwnerPath(last.pre, b))
                    \/ /\ OwnerPath(last.pre, a) = OwnerPath(last.pre, b)
                       /\ Rank(a.path) <= Rank(b.path)

\* two videos of two folders are listed in the order of the folders,
\* against the order of their own paths
C24_Witness ==
    /\ last.op = "tag_link_get_by_tag"
    /\ Len(last.list) = 2
    /\ last.list[1].folder_id # last.list[2].folder_id
    /\ Rank(last.list[1].path) > Rank(last.list[2].path)

\* C25: folder_get_all, video_get_by_folder and video_get_all return their
\* rows in the order of the paths, tag_get_all in the order of the names.
C25_ListsAreSorted ==
    /\ last.op \in {"folder_get_all", "video_get_by_folder",
                     "video_get_all"} => PathSorted(last.list)
    /\ last.op = "tag_get_all" => NameSorted(last.list)

\* C37: every Video that video_get_all returns has the field values that
\* video_get_by_id returns for the same id on the same store (id, folder_id,
\* path, added, mtime, title, checksum, resolution, duration and hidden).
C37_SameDecoding ==
    (last.op = "video_get_all" /\ last.ok) =>
        \A i \in DOMAIN last.list :
            video_get_by_id(last.pre, last.list[i].vid).ret = {last.list[i]}

\* C40: video_get_by_folder for a folder id or a folder path that has no
\* Folder row returns the empty list and does not raise.
C40_MissingFolderIsEmpty ==
    (/\ last.op = "video_get_by_folder"
     /\ ~\E r \in last.pre.folder : r.id = last.key[1] \/ r.path = last.key[2])
        => last.ok /\ last.list = <<>>

(***************************************************************************)
(* Handlers of the GUI (specification SpecGui).                            *)
(***************************************************************************)
\* C36: when vid_toggle_tag has run for a tag that was not attached to the
\* video, the committed store has exactly one link row of the pair, and
\* when it has run for a tag that was attached, it has none.
C36_ToggleCommitsTheLink ==
    gui.act.op = "vid_toggle_tag" =>
        Cardinality(TagLinkRows(db, gui.act.tag, gui.act.vid))
            = IF gui.act.link = NULL THEN 1 ELSE 0

\* C38: when purge has run, the committed store has lost exactly the Video
\* rows whose file is gone, with their tag, person and program links, and
\* every other row is as it was.
C38_PurgeRemovesMissingFiles ==
    gui.act.op = "purge" =>
        db = CascadeVideos(gui.act.pre,
                           {r.id : r \in {v \in gui.act.pre.video :
                                             v.path \in gui.act.gone}})

(***************************************************************************)
(* Identifiers (specification Spec).                                       *)
(***************************************************************************)
\* C20: the id a successful add assigns is positive and greater than every
\* id assigned before to a row of that table that was not rolled back, also
\* when rows have been deleted since.
C20_IdsNeverReused ==
    (last.ok /\ last.op \in DOMAIN AddTable) =>
        /\ last.rc > 0
        /\ last.rc > last.was[AddTable[last.op]]

=============================================================================
